---- MODULE Spec2Model ----
(***************************************************************************)
(* Referral / points engine of the referral-system service:                *)
(*   services/referral_service.py  (ReferralService)                       *)
(*   routers/referrals.py          (the HTTP handlers that call it)        *)
(* The three Google-Sheets worksheets are the ledgers: "Codes",            *)
(* "Referrals" and "DailyBalances".  A worksheet is a sequence of rows;    *)
(* append_row appends, update_cell overwrites one cell of one row.         *)
(***************************************************************************)
EXTENDS Integers, Sequences, FiniteSets, TLC

VARIABLES
    codes,        \* the "Codes" worksheet: rows in append order
    referrals,    \* the "Referrals" worksheet
    snapshots,    \* the "DailyBalances" worksheet
    today,        \* datetime.utcnow().date(), as a day number
    procs,        \* in-flight handler invocations (concurrent workers)
    leaderboard_cache,  \* the rows of the leaderboard_cache table
    refresh,      \* the run of the cache update in progress, if any
    enabled       \* ReferralService.enabled, set when the process starts

vars ==
    <<codes, referrals, snapshots, today, procs, leaderboard_cache, refresh, enabled>>

(***************************************************************************)
(* Bounds of the model.                                                    *)
(***************************************************************************)
MaxCodes == 3       \* rows the Codes worksheet may grow to
MaxEvents == 2      \* rows the Referrals worksheet may grow to
MaxDay == 1         \* last day number the clock reaches

\* the worker processes that serve requests side by side
Workers == {1, 2}

(***************************************************************************)
(* Program constants (class attributes of ReferralService).                *)
(***************************************************************************)
SIGNUP_BONUS == 1000
REFEREE_BONUS == 1000
MIN_SWAP_AMOUNT == 100
BASE_ROLLS == 3
BONUS_ROLLS == 3
UNLOCK_THRESHOLD == 3
\* DAILY_BONUS_RATE is 0.1 point per USDX per day: 1 / DAILY_BONUS_RATE_DEN
DAILY_BONUS_RATE_DEN == 10

\* SPECIAL_CODES: key -> {min_swap, bonus_points, description}
SPECIAL_CODES ==
    [PUNK   |-> [min_swap |-> 5,  bonus_points |-> 500,
                 description |-> "Solana Cypherpunk Hackathon code"],
     LAUNCH |-> [min_swap |-> 10, bonus_points |-> 250,
                 description |-> "Launch week special"],
     VIP    |-> [min_swap |-> 5,  bonus_points |-> 1000,
                 description |-> "VIP early access"]]

(***************************************************************************)
(* Strings.  An address string is [ns, id, form]: which account it spells  *)
(* (ns, id) and in which letter case (form).                               *)
(*   evm: "lower"    0x + lower-case hex                                   *)
(*        "upper"    0x + upper-case hex                                   *)
(*        "checksum" the EIP-55 mixed-case spelling                        *)
(*        "badmix"   mixed case that is not the EIP-55 spelling            *)
(*        id 0 is 0x000...0, which has no letters: one spelling only       *)
(*   sol: "orig"     the base-58 public key as issued (case-sensitive)     *)
(*        "lowered"  str.lower() of it, a different string                 *)
(*   bad: a string that is neither                                         *)
(*   marker: the literal "SPECIAL_CODE"; none: Python None                 *)
(***************************************************************************)
EvmStr(i, f) == [ns |-> "evm", id |-> i, form |-> IF i = 0 THEN "lower" ELSE f]
SolStr(i, f) == [ns |-> "sol", id |-> i, form |-> f]
BadStr == [ns |-> "bad", id |-> 0, form |-> "lower"]
SPECIAL_CODE == [ns |-> "marker", id |-> 0, form |-> "upper"]
None == [ns |-> "none", id |-> 0, form |-> "none"]
ZERO_ADDRESS == EvmStr(0, "lower")

\* str.lower() on an address string
Lower(s) ==
    CASE s.ns = "evm" -> EvmStr(s.id, "lower")
      [] s.ns = "sol" -> SolStr(s.id, "lowered")
      [] s.ns = "marker" -> [s EXCEPT !.form = "lower"]
      [] OTHER -> s

\* Base-58 public keys whose lower-cased spelling still parses as a key
SolLowerParses == {}

\* Web3.is_address: 40 hex digits, all one case or the EIP-55 spelling
Web3_is_address(s) == s.ns = "evm" /\ s.form # "badmix"

\* Web3.to_checksum_address
Web3_to_checksum_address(s) == EvmStr(s.id, "checksum")

\* Pubkey.from_string succeeds
Pubkey_from_string_ok(s) ==
    s.ns = "sol" /\ (s.form = "orig" \/ s.id \in SolLowerParses)

\* ReferralService._validate_address
_validate_address(address) ==
    IF Web3_is_address(address)
    THEN [valid |-> TRUE, type |-> "evm",
          normalized |-> Web3_to_checksum_address(address)]
    ELSE IF Pubkey_from_string_ok(address)
    THEN [valid |-> TRUE, type |-> "solana", normalized |-> address]
    ELSE [valid |-> FALSE, type |-> "none", normalized |-> address]

(***************************************************************************)
(* A referral-code string is [words, num, form]: "{words}-{num}" for a     *)
(* generated code (words = COLOR-WORD), words alone for a special code,    *)
(* in letter case form ("upper" as issued, "lower" as a user may type it). *)
(***************************************************************************)
CodeStr(w, n, f) == [words |-> w, num |-> n, form |-> f]
\* str.upper() on a code string
Upper(c) == [c EXCEPT !.form = "upper"]
SpecialNames == DOMAIN SPECIAL_CODES
\* code.upper() in self.SPECIAL_CODES
IsSpecial(c) == c.num = "" /\ c.words \in SpecialNames

(***************************************************************************)
(* Code generation.  Each attempt of generate_referral_code draws a tier,  *)
(* a colour and a word of that tier, a length and a number, and composes   *)
(* a candidate; the candidates the model draws from are CodePool.          *)
(***************************************************************************)
WordPairs == {"GRAY-WAVE", "GOLD-WHALE"}
TierOf(w) == IF w = "GOLD-WHALE" THEN "MYTHIC" ELSE "COMMON"
\* the draws of the attempts, in the order the model makes them: colour and
\* word, the length of _select_number_length, the number of
\* _generate_special_number(length)
DrawPool ==
    << [words |-> "GRAY-WAVE", length |-> 2, number |-> 42],
       [words |-> "GOLD-WHALE", length |-> 1, number |-> 7],
       [words |-> "GRAY-WAVE", length |-> 1, number |-> 7],
       [words |-> "GOLD-WHALE", length |-> 2, number |-> 42],
       [words |-> "GRAY-WAVE", length |-> 3, number |-> 420] >>

\* str(n) of a number n >= 0
DigitChars == <<"0", "1", "2", "3", "4", "5", "6", "7", "8", "9">>
RECURSIVE Decimal(_)
Decimal(n) ==
    IF n < 10 THEN DigitChars[n + 1]
    ELSE Decimal(n \div 10) \o DigitChars[(n % 10) + 1]

\* f"{n:0{width}d}": zeros in front up to the width, nothing cut
RECURSIVE ZeroPadded(_, _)
ZeroPadded(str, width) ==
    IF Len(str) >= width THEN str ELSE ZeroPadded("0" \o str, width)

\* the number as the attempt formats it: f"{number}" for length 1,
\* f"{number:02d}" for length 2, f"{number:03d}" for length 3
FormatNumber(number, length) ==
    IF length = 1 THEN Decimal(number) ELSE ZeroPadded(Decimal(number), length)

\* code = f"{color}-{word}-{number}" of an attempt
ComposeCode(d) == CodeStr(d.words, FormatNumber(d.number, d.length), "upper")

\* candidate codes, in the order the model's draws produce them
CodePool == [i \in DOMAIN DrawPool |-> ComposeCode(DrawPool[i])]
PoolCodes == {CodePool[i] : i \in DOMAIN CodePool}
\* f"{int(time.time()) % 100:02d}" on the fallback path
TimeMod100 == {"42"}

\* row['referral_code'] for row in codes
ExistingCodes(codesL) == {codesL[i].referral_code : i \in DOMAIN codesL}

\* ReferralService.generate_referral_code: the (code, tier) pairs a call can
\* return.  An attempt whose candidate is not in the worksheet returns it
\* (the model draws the candidates in CodePool order); when all max_attempts
\* candidates are in the worksheet the fallback is the last candidate's
\* words with the time suffix, returned unchecked.
generate_referral_code(codesL) ==
    LET existing == ExistingCodes(codesL)
        unused == {i \in DOMAIN CodePool : CodePool[i] \notin existing}
        first == CodePool[CHOOSE i \in unused : \A j \in unused : i <= j]
        lastColliding == PoolCodes \cap existing
    IN  (IF unused = {} THEN {}
         ELSE {[code |-> first, rarity |-> TierOf(first.words)]})
        \cup
        {[code |-> CodeStr(l.words, t, "upper"), rarity |-> TierOf(l.words)] :
            l \in lastColliding, t \in TimeMod100}

\* the same call with the length its last attempt drew: an attempt's code
\* with that attempt's length, the fallback with the length of the attempt
\* whose colour and word it keeps
GenerateDraws(codesL) ==
    LET existing == ExistingCodes(codesL)
        unused == {i \in DOMAIN CodePool : CodePool[i] \notin existing}
        colliding == {i \in DOMAIN CodePool : CodePool[i] \in existing}
    IN  {[code |-> CodePool[i], rarity |-> TierOf(DrawPool[i].words),
          length |-> DrawPool[i].length, fallback |-> FALSE] :
            i \in {j \in unused : \A k \in unused : j <= k}}
        \cup
        {[code |-> CodeStr(DrawPool[i].words, t, "upper"),
          rarity |-> TierOf(DrawPool[i].words),
          length |-> DrawPool[i].length, fallback |-> TRUE] :
            i \in colliding, t \in TimeMod100}

(***************************************************************************)
(* The draws of one attempt.  random.random() is a number in [0, 1); the   *)
(* model counts it, and the weights, in units of 1/DrawScale, so that      *)
(* 0.005 is 50 and a draw is one of 0 .. DrawScale - 1.  The tables are in *)
(* the order the dicts are declared in, which is the order the loops       *)
(* visit them.                                                             *)
(***************************************************************************)
DrawScale == 10000

RARITY_TIERS ==
    << [key |-> "MYTHIC", weight |-> 50, colors |-> "GOLD", words |-> "SATOSHI"],
       [key |-> "LEGENDARY", weight |-> 300, colors |-> "DIAMOND", words |-> "LAMBO"],
       [key |-> "EPIC", weight |-> 600, colors |-> "VIOLET", words |-> "COMET"],
       [key |-> "RARE", weight |-> 1400, colors |-> "SAPPHIRE", words |-> "STAR"],
       [key |-> "UNCOMMON", weight |-> 2500, colors |-> "EMERALD", words |-> "BLAZE"],
       [key |-> "COMMON", weight |-> 5150, colors |-> "GRAY", words |-> "WAVE"] >>

LENGTH_WEIGHTS ==
    << [key |-> 1, weight |-> 500],
       [key |-> 2, weight |-> 8500],
       [key |-> 3, weight |-> 1000] >>

\* variant: a threshold equal to the draw is passed over
Reached_strict(rand, cumulative) == rand < cumulative

\* the test of the selection loops: rand <= cumulative
Reached(rand, cumulative) == rand <= cumulative

\* the loop "for key, weight in table: cumulative += weight; if rand <=
\* cumulative: return key", from entry k on with the weights before k
\* summed in cumulative: the index of the entry returned, 0 when the loop
\* ends without returning
RECURSIVE SelectLoop(_, _, _, _)
SelectLoop(table, rand, k, cumulative) ==
    IF k > Len(table)
    THEN 0
    ELSE IF Reached(rand, cumulative + table[k].weight)
         THEN k
         ELSE SelectLoop(table, rand, k + 1, cumulative + table[k].weight)

\* ReferralService._select_rarity_tier with random.random() = rand
_select_rarity_tier(rand) ==
    IF SelectLoop(RARITY_TIERS, rand, 1, 0) = 0
    THEN "COMMON"
    ELSE RARITY_TIERS[SelectLoop(RARITY_TIERS, rand, 1, 0)].key

\* ReferralService._select_number_length with random.random() = rand
_select_number_length(rand) ==
    IF SelectLoop(LENGTH_WEIGHTS, rand, 1, 0) = 0
    THEN 2
    ELSE LENGTH_WEIGHTS[SelectLoop(LENGTH_WEIGHTS, rand, 1, 0)].key

SPECIAL_NUMBERS ==
    [length \in 1..3 |->
        CASE length = 1 ->
                [lucky |-> <<7, 8, 9>>,
                 regular |-> <<0, 1, 2, 3, 4, 5, 6>>]
          [] length = 2 ->
                [ultra_rare |-> <<69, 42, 88, 77, 99>>,
                 rare |-> <<11, 22, 33, 44, 55, 66>>,
                 uncommon |-> <<12, 23, 34, 45, 56, 67, 78, 89,
                                21, 32, 43, 54, 65, 76, 87, 98>>,
                 common |-> << >>]
          [] length = 3 ->
                [ultra_rare |-> <<420, 666, 888, 777, 999>>,
                 rare |-> <<111, 222, 333, 444, 555>>,
                 uncommon |-> <<123, 234, 345, 456, 567, 678, 789,
                                321, 432, 543, 654, 765, 876, 987>>,
                 common |-> << >>]]

NUMBER_PATTERN_WEIGHTS ==
    [length \in 1..3 |->
        CASE length = 1 ->
                << [key |-> "lucky", weight |-> 3000],
                   [key |-> "regular", weight |-> 7000] >>
          [] length = 2 ->
                << [key |-> "ultra_rare", weight |-> 550],
                   [key |-> "rare", weight |-> 670],
                   [key |-> "uncommon", weight |-> 1780],
                   [key |-> "common", weight |-> 7000] >>
          [] length = 3 ->
                << [key |-> "ultra_rare", weight |-> 55],
                   [key |-> "rare", weight |-> 55],
                   [key |-> "uncommon", weight |-> 155],
                   [key |-> "common", weight |-> 9735] >>]

\* the elements of a list
Elements(list) == {list[i] : i \in DOMAIN list}

\* the pattern type _generate_special_number(length) selects with
\* random.random() = rand; "none" when the loop ends without a match
PatternType(length, rand) ==
    IF length = 1
    THEN (IF Reached(rand, NUMBER_PATTERN_WEIGHTS[1][1].weight)
          THEN "lucky" ELSE "regular")
    ELSE IF SelectLoop(NUMBER_PATTERN_WEIGHTS[length], rand, 1, 0) = 0
         THEN "none"
         ELSE NUMBER_PATTERN_WEIGHTS[length][
                  SelectLoop(NUMBER_PATTERN_WEIGHTS[length], rand, 1, 0)].key

\* variant: the set covers the whole range of the length
special_set_wholeRange(length) == 0..999

\* variant: the uncommon numbers are left out of the set
special_set_withoutUncommon(length) ==
    Elements(SPECIAL_NUMBERS[length].ultra_rare)
    \cup Elements(SPECIAL_NUMBERS[length].rare)

\* special_set of _generate_special_number, lengths 2 and 3
special_set(length) ==
    Elements(SPECIAL_NUMBERS[length].ultra_rare)
    \cup Elements(SPECIAL_NUMBERS[length].rare)
    \cup Elements(SPECIAL_NUMBERS[length].uncommon)

\* the arguments of random.randint: (10, 99) for length 2, (100, 999) for 3
RandintRange(length) == IF length = 3 THEN 100..999 ELSE 10..99

(***************************************************************************)
(* Roll economy.                                                           *)
(***************************************************************************)
\* ReferralService._count_successful_referrals
_count_successful_referrals(refsL, address) ==
    Cardinality({i \in DOMAIN refsL :
                    Lower(refsL[i].referrer_address) = Lower(address)})

\* variant: the bonus rolls are granted whatever the referral count
MaxRolls_alwaysBonus(refsL, address) == BASE_ROLLS + BONUS_ROLLS

\* max_rolls as computed in get_or_create_referral_code and regenerate_referral_code
MaxRolls(refsL, address) ==
    IF _count_successful_referrals(refsL, address) >= UNLOCK_THRESHOLD
    THEN BASE_ROLLS + BONUS_ROLLS
    ELSE BASE_ROLLS

Max(a, b) == IF a >= b THEN a ELSE b
SetMax(S) == CHOOSE m \in S : \A x \in S : x <= m

(***************************************************************************)
(* Code Ledger.  A Codes row is                                            *)
(*   [address, referral_code, rarity, rolls_used, is_active]               *)
(***************************************************************************)
CodeRow(a, c, r, n, act) ==
    [address |-> a, referral_code |-> c, rarity |-> r, rolls_used |-> n,
     is_active |-> act]

\* rows of `address` (compared lower-cased), as worksheet positions
UserRows(codesL, address) ==
    {i \in DOMAIN codesL : Lower(codesL[i].address) = Lower(address)}
ActiveRows(codesL, address) ==
    {i \in UserRows(codesL, address) : codesL[i].is_active}

\* regenerate_referral_code's current_rolls_used: the highest rolls_used over
\* the rows of the address
CurrentRollsUsed(codesL, address) ==
    SetMax({codesL[i].rolls_used : i \in UserRows(codesL, address)})

\* variant: the row appended by a regenerate takes its rolls_used from the
\* worksheet as it is at the append
RegenRow_rereads(codesL, address, current_rolls_used, g) ==
    CodeRow(address, g.code, g.rarity, CurrentRollsUsed(codesL, address) + 1, TRUE)

\* the row regenerate_referral_code appends: rolls_used is the value read at
\* the start of the call plus one
RegenRow(codesL, address, current_rolls_used, g) ==
    CodeRow(address, g.code, g.rarity, current_rolls_used + 1, TRUE)

\* variant: the stored address is compared without lower-casing the argument
get_or_create_referral_code_noLower(codesL, refsL, address0, g) ==
    LET hits == {i \in DOMAIN codesL :
                    codesL[i].address = address0 /\ codesL[i].is_active}
    IN  IF hits # {}
        THEN LET row == codesL[CHOOSE i \in hits : \A j \in hits : i <= j]
             IN  [out |-> [code |-> row.referral_code,
                           rarity |-> row.rarity,
                           rolls_used |-> row.rolls_used,
                           rolls_remaining |->
                               Max(0, MaxRolls(refsL, address0) - row.rolls_used),
                           successful_referrals |->
                               _count_successful_referrals(refsL, address0)],
                  codes |-> codesL]
        ELSE [out |-> [code |-> g.code,
                       rarity |-> g.rarity,
                       rolls_used |-> 1,
                       rolls_remaining |-> BASE_ROLLS - 1,
                       successful_referrals |-> 0],
              codes |-> Append(codesL, CodeRow(Lower(address0), g.code, g.rarity, 1, TRUE))]

\* ReferralService.get_or_create_referral_code; g is the generator's result.
\* Returns the dict it returns and the worksheet after the call.
get_or_create_referral_code(codesL, refsL, address0, g) ==
    LET address == Lower(address0)
        active == ActiveRows(codesL, address)
    IN  IF active # {}
        THEN LET row == codesL[CHOOSE i \in active : \A j \in active : i <= j]
                 successful_refs == _count_successful_referrals(refsL, address)
             IN  [out |-> [code |-> row.referral_code,
                           rarity |-> row.rarity,
                           rolls_used |-> row.rolls_used,
                           rolls_remaining |->
                               Max(0, MaxRolls(refsL, address) - row.rolls_used),
                           successful_referrals |-> successful_refs],
                  codes |-> codesL]
        ELSE [out |-> [code |-> g.code,
                       rarity |-> g.rarity,
                       rolls_used |-> 1,
                       rolls_remaining |-> BASE_ROLLS - 1,
                       successful_referrals |-> 0],
              codes |-> Append(codesL, CodeRow(address, g.code, g.rarity, 1, TRUE))]

\* variant: the roll check lets a roll through at the cap
NoRollsLeft_strict(current_rolls_used, max_rolls) == current_rolls_used > max_rolls

\* regenerate_referral_code's roll check: current_rolls_used >= max_rolls
NoRollsLeft(current_rolls_used, max_rolls) == current_rolls_used >= max_rolls

\* variant: update_cell addresses the worksheet row without the header
\* offset, so the row above the intended one is written
DeactivateRows_noHeaderOffset(codesL, rows) ==
    [i \in DOMAIN codesL |->
        IF (i + 1) \in rows
        THEN [codesL[i] EXCEPT !.is_active = FALSE]
        ELSE codesL[i]]

\* variant: update_cell writes "false" one column to the left (rarity)
DeactivateRows_wrongColumn(codesL, rows) ==
    [i \in DOMAIN codesL |->
        IF i \in rows
        THEN [codesL[i] EXCEPT !.rarity = "false"]
        ELSE codesL[i]]

\* regenerate_referral_code's update_cell calls: the worksheet rows `rows`
\* get is_active = "false"
DeactivateRows(codesL, rows) ==
    [i \in DOMAIN codesL |->
        IF i \in rows
        THEN [codesL[i] EXCEPT !.is_active = FALSE]
        ELSE codesL[i]]

\* variant: the loop does not filter the rows by address
Deactivated_anyAddress(codesL, address) ==
    DeactivateRows(codesL, {i \in DOMAIN codesL : codesL[i].is_active})

\* regenerate_referral_code's loop over user_codes: every row of the address
\* that was read as active is written
Deactivated(codesL, address) ==
    DeactivateRows(codesL, ActiveRows(codesL, address))

\* variant: an address without rows is given a first row
NoCodeFound_createsRow(codesL, address, g) ==
    [out |-> [success |-> TRUE, code |-> g.code, rarity |-> g.rarity,
              rolls_used |-> 1, rolls_remaining |-> BASE_ROLLS - 1,
              successful_referrals |-> 0],
     codes |-> Append(codesL, CodeRow(address, g.code, g.rarity, 1, TRUE))]

\* regenerate_referral_code's return for an address without rows
\* ("if not user_codes"): a failure dict, no write
NoCodeFound(codesL, address, g) ==
    [out |-> [success |-> FALSE, error |-> "No referral code found"],
     codes |-> codesL]

\* ReferralService.regenerate_referral_code; g is the generator's result
\* (drawn after the old rows were marked inactive).
regenerate_referral_code(codesL, refsL, address0, g) ==
    LET address == Lower(address0)
        user_codes == UserRows(codesL, address)
    IN  IF user_codes = {}
        THEN NoCodeFound(codesL, address, g)
        ELSE
        LET current_rolls_used == CurrentRollsUsed(codesL, address)
            successful_refs == _count_successful_referrals(refsL, address)
            max_rolls == MaxRolls(refsL, address)
        IN  IF NoRollsLeft(current_rolls_used, max_rolls)
            \* the message's "(used/max)" suffix is carried by the two fields
            THEN [out |-> [success |-> FALSE, error |-> "No rolls remaining",
                           rolls_used |-> current_rolls_used,
                           max_rolls |-> max_rolls],
                  codes |-> codesL]
            ELSE
            LET deactivated == Deactivated(codesL, address)
                new_rolls_used == current_rolls_used + 1
            IN  [out |-> [success |-> TRUE,
                          code |-> g.code,
                          rarity |-> g.rarity,
                          rolls_used |-> new_rolls_used,
                          rolls_remaining |-> max_rolls - new_rolls_used,
                          successful_referrals |-> successful_refs],
                 codes |-> Append(deactivated,
                                  RegenRow(deactivated, address,
                                           current_rolls_used, g))]


\* the worksheet calls of regenerate_referral_code that can raise:
\* get_all_records, update_cell, append_row
StoreCalls == {"read", "update", "append"}

\* regenerate_referral_code when the worksheet call `failing` raises the
\* first time it is made: the except branch returns the failure dict, and
\* the worksheet stays as the calls before it left it.  A call that returns
\* before it reaches the failing call is not affected.
regenerate_with_fault(codesL, refsL, address0, g, failing) ==
    LET address == Lower(address0)
        raised(codesNow) ==
            [out |-> [success |-> FALSE, error |-> "str(e)"], codes |-> codesNow]
    IN  IF failing = "read"
        THEN raised(codesL)
        ELSE IF \/ UserRows(codesL, address) = {}
                \/ NoRollsLeft(CurrentRollsUsed(codesL, address),
                               MaxRolls(refsL, address))
        THEN regenerate_referral_code(codesL, refsL, address0, g)
        ELSE IF failing = "update" /\ ActiveRows(codesL, address) # {}
        THEN raised(codesL)
        ELSE IF failing = "append"
        THEN raised(Deactivated(codesL, address))
        ELSE regenerate_referral_code(codesL, refsL, address0, g)


(***************************************************************************)
(* Code lookup and benefits.                                               *)
(***************************************************************************)
\* variant: only rows with is_active = true are searched
get_address_by_code_activeOnly(codesL, code) ==
    IF IsSpecial(code)
    THEN SPECIAL_CODE
    ELSE LET hits == {i \in DOMAIN codesL :
                        /\ codesL[i].is_active
                        /\ Upper(codesL[i].referral_code) = Upper(code)}
         IN  IF hits = {}
             THEN None
             ELSE codesL[CHOOSE i \in hits : \A j \in hits : i <= j].address

\* ReferralService.get_address_by_code
get_address_by_code(codesL, code) ==
    IF IsSpecial(code)
    THEN SPECIAL_CODE
    ELSE LET hits == {i \in DOMAIN codesL :
                        Upper(codesL[i].referral_code) = Upper(code)}
         IN  IF hits = {}
             THEN None
             ELSE codesL[CHOOSE i \in hits : \A j \in hits : i <= j].address

\* ReferralService.get_code_benefits
get_code_benefits(codesL, code) ==
    IF IsSpecial(code)
    THEN [min_swap |-> SPECIAL_CODES[code.words].min_swap,
          bonus_points |-> SPECIAL_CODES[code.words].bonus_points,
          description |-> SPECIAL_CODES[code.words].description,
          is_special |-> TRUE, is_valid |-> TRUE]
    ELSE IF get_address_by_code(codesL, code) \notin {None, SPECIAL_CODE}
    THEN [min_swap |-> MIN_SWAP_AMOUNT, bonus_points |-> 0,
          description |-> "Standard referral code",
          is_special |-> FALSE, is_valid |-> TRUE]
    ELSE [min_swap |-> MIN_SWAP_AMOUNT, bonus_points |-> 0,
          description |-> "Invalid code",
          is_special |-> FALSE, is_valid |-> FALSE]

(***************************************************************************)
(* Referral Ledger.  A Referrals row is                                    *)
(*   [referrer_address, referral_code, referred_address, swap_amount_usdc] *)
(***************************************************************************)
ReferralRow(r, c, a, amt) ==
    [referrer_address |-> r, referral_code |-> c, referred_address |-> a,
     swap_amount_usdc |-> amt]

\* variant: the lookup reads the referrer column
ReferredRows_referrerColumn(refsL, address) ==
    {i \in DOMAIN refsL : Lower(refsL[i].referrer_address) = Lower(address)}

\* rows whose referred_address is `address`, compared lower-cased
ReferredRows(refsL, address) ==
    {i \in DOMAIN refsL : Lower(refsL[i].referred_address) = Lower(address)}

\* variant: the lookup fails and its except branch returns None
check_if_referred_none(refsL, address) == FALSE

\* ReferralService.check_if_referred: truthy iff a row exists
check_if_referred(refsL, address) == ReferredRows(refsL, address) # {}

Fail(msg) == [success |-> FALSE, error |-> msg]

\* variant: the minimum test refuses the minimum itself
BelowMinimum_inclusive(swap_amount_usdc, min_amount) == swap_amount_usdc <= min_amount

\* record_referral's minimum test: swap_amount_usdc < min_amount
BelowMinimum(swap_amount_usdc, min_amount) == swap_amount_usdc < min_amount

\* variant: the row is appended before the minimum test
record_referral_writesBeforeMinimum(codesL, refsL, referrer0, referred0, swap_amount_usdc, referral_code) ==
    LET code_benefits == get_code_benefits(codesL, referral_code)
        referrer_info == _validate_address(referrer0)
        referrer_address == IF referrer0 = SPECIAL_CODE
                            THEN ZERO_ADDRESS
                            ELSE referrer_info.normalized
        referred_info == _validate_address(referred0)
        appended == Append(refsL, ReferralRow(referrer_address, referral_code,
                                              referred_info.normalized,
                                              swap_amount_usdc))
    IN  IF ~code_benefits.is_valid
        THEN [out |-> Fail("Invalid referral code"), referrals |-> refsL]
        ELSE IF referrer0 # SPECIAL_CODE /\ ~referrer_info.valid
        THEN [out |-> Fail("Invalid referrer address"), referrals |-> refsL]
        ELSE IF ~referred_info.valid
        THEN [out |-> Fail("Invalid referred address"), referrals |-> refsL]
        ELSE IF ReferredRows(refsL, referred_info.normalized) # {}
        THEN [out |-> Fail("Address already referred"), referrals |-> refsL]
        ELSE IF BelowMinimum(swap_amount_usdc, code_benefits.min_swap)
        THEN [out |-> Fail("Swap amount must be at least min_swap USDC"),
              referrals |-> appended]
        ELSE [out |-> [success |-> TRUE,
                       referrer_bonus |-> IF referrer_address # ZERO_ADDRESS
                                          THEN SIGNUP_BONUS ELSE 0,
                       referee_bonus |-> REFEREE_BONUS + code_benefits.bonus_points,
                       is_special |-> code_benefits.is_special,
                       description |-> code_benefits.description],
              referrals |-> appended]

\* ReferralService.record_referral: the dict returned and the worksheet after
record_referral(codesL, refsL, referrer0, referred0, swap_amount_usdc, referral_code) ==
    LET code_benefits == get_code_benefits(codesL, referral_code)
        min_amount == code_benefits.min_swap
        referrer_info == _validate_address(referrer0)
        referrer_address == IF referrer0 = SPECIAL_CODE
                            THEN ZERO_ADDRESS
                            ELSE referrer_info.normalized
        referred_info == _validate_address(referred0)
        referred_address == referred_info.normalized
    IN  IF ~code_benefits.is_valid
        THEN [out |-> Fail("Invalid referral code"), referrals |-> refsL]
        ELSE IF referrer0 # SPECIAL_CODE /\ ~referrer_info.valid
        THEN [out |-> Fail("Invalid referrer address"), referrals |-> refsL]
        ELSE IF ~referred_info.valid
        THEN [out |-> Fail("Invalid referred address"), referrals |-> refsL]
        ELSE IF ReferredRows(refsL, referred_address) # {}
        THEN [out |-> Fail("Address already referred"), referrals |-> refsL]
        ELSE IF BelowMinimum(swap_amount_usdc, min_amount)
        THEN [out |-> Fail("Swap amount must be at least min_swap USDC"),
              referrals |-> refsL]
        ELSE [out |-> [success |-> TRUE,
                       referrer_bonus |-> IF referrer_address # ZERO_ADDRESS
                                          THEN SIGNUP_BONUS ELSE 0,
                       referee_bonus |-> REFEREE_BONUS + code_benefits.bonus_points,
                       is_special |-> code_benefits.is_special,
                       description |-> code_benefits.description],
              referrals |-> Append(refsL,
                                   ReferralRow(referrer_address, referral_code,
                                               referred_address, swap_amount_usdc))]

(***************************************************************************)
(* Statistics, leaderboard and daily snapshots.  A DailyBalances row is    *)
(*   [date, referred_address, usdx_balance]                                *)
(* Balances are whole USDX in multiples of DAILY_BONUS_RATE_DEN, so that   *)
(* usdx_balance * 0.1 is a whole number of points.                         *)
(***************************************************************************)
SnapshotRow(d, a, b) == [date |-> d, referred_address |-> a, usdx_balance |-> b]

\* the loops "for snapshot in snapshots: if referred_address.lower() in set:
\* daily_points += usdx_balance * DAILY_BONUS_RATE", over the first n rows
\* a usdx_balance cell that float() rejects (text, or an empty cell)
NotANumber == -1

\* float(snapshot['usdx_balance']) raises for some counted row
FloatRaises(snapsL, referred_set) ==
    \E n \in DOMAIN snapsL :
        /\ Lower(snapsL[n].referred_address) \in referred_set
        /\ snapsL[n].usdx_balance = NotANumber

\* a row whose balance cannot be parsed adds nothing (get_leaderboard's
\* "except: pass"; get_referrer_stats does not get this far with such a row)
RECURSIVE BalanceSum(_, _, _)
BalanceSum(snapsL, referred_set, n) ==
    IF n = 0
    THEN 0
    ELSE BalanceSum(snapsL, referred_set, n - 1)
         + (IF /\ Lower(snapsL[n].referred_address) \in referred_set
               /\ snapsL[n].usdx_balance # NotANumber
            THEN snapsL[n].usdx_balance ELSE 0)

\* variant: only the latest snapshot row is counted
DailyPoints_latestOnly(snapsL, referred_set) ==
    IF snapsL = << >>
    THEN 0
    ELSE (IF Lower(snapsL[Len(snapsL)].referred_address) \in referred_set
          THEN snapsL[Len(snapsL)].usdx_balance ELSE 0) \div DAILY_BONUS_RATE_DEN

DailyPoints(snapsL, referred_set) ==
    BalanceSum(snapsL, referred_set, Len(snapsL)) \div DAILY_BONUS_RATE_DEN

\* rows of refsL whose referrer is `address`, lower-cased, in worksheet order
ReferrerRows(refsL, address) ==
    SelectSeq(refsL, LAMBDA r : Lower(r.referrer_address) = Lower(address))

\* ReferralService.get_referrer_stats
get_referrer_stats(refsL, snapsL, address0) ==
    LET user_referrals == ReferrerRows(refsL, address0)
        total_referrals == Len(user_referrals)
        signup_points == total_referrals * SIGNUP_BONUS
        referred_addresses ==
            [i \in DOMAIN user_referrals |-> user_referrals[i].referred_address]
        referred_set == {Lower(referred_addresses[i]) : i \in DOMAIN referred_addresses}
        \* one try around the whole loop: "except: daily_points = 0"
        daily_points == IF FloatRaises(snapsL, referred_set)
                        THEN 0
                        ELSE DailyPoints(snapsL, referred_set)
    IN  [total_referrals |-> total_referrals,
         signup_points |-> signup_points,
         daily_points |-> daily_points,
         total_referral_points |-> signup_points + daily_points,
         referred_addresses |-> referred_addresses]

\* get_leaderboard's referrer_map keys: lower-cased referrers in the order of
\* their first row
RECURSIVE ReferrerKeys(_)
ReferrerKeys(refsL) ==
    IF refsL = << >>
    THEN << >>
    ELSE LET prev == ReferrerKeys(SubSeq(refsL, 1, Len(refsL) - 1))
             k == Lower(refsL[Len(refsL)].referrer_address)
         IN  IF \E i \in DOMAIN prev : prev[i] = k THEN prev ELSE Append(prev, k)

\* list.sort(key=referral_points, reverse=True): stable, descending
InsertDesc(sorted, e) ==
    LET before == {i \in DOMAIN sorted : sorted[i].referral_points >= e.referral_points}
        n == Cardinality(before)
    IN  SubSeq(sorted, 1, n) \o <<e>> \o SubSeq(sorted, n + 1, Len(sorted))

RECURSIVE SortDesc(_)
SortDesc(entries) ==
    IF entries = << >>
    THEN << >>
    ELSE InsertDesc(SortDesc(SubSeq(entries, 1, Len(entries) - 1)),
                    entries[Len(entries)])

\* ReferralService.get_leaderboard
get_leaderboard(refsL, snapsL, limit) ==
    LET keys == ReferrerKeys(refsL)
        entry(k) ==
            LET user_referrals == ReferrerRows(refsL, k)
                referred_addresses ==
                    {Lower(user_referrals[i].referred_address) : i \in DOMAIN user_referrals}
            IN  [address |-> k,
                 total_referrals |-> Len(user_referrals),
                 referral_points |->
                     Len(user_referrals) * SIGNUP_BONUS
                     + DailyPoints(snapsL, referred_addresses)]
        leaderboard == SortDesc([i \in DOMAIN keys |-> entry(keys[i])])
    IN  SubSeq(leaderboard, 1, IF limit < Len(leaderboard) THEN limit ELSE Len(leaderboard))

\* ReferralService.get_all_referred_addresses
get_all_referred_addresses(refsL) ==
    {Lower(refsL[i].referred_address) : i \in DOMAIN refsL}

\* the referred_address strings of the Referrals worksheet, as stored
UniqueReferredAddresses(refsL) == {refsL[i].referred_address : i \in DOMAIN refsL}

\* variant: the "snapshot already exists for today" test is left out
snapshot_daily_balances_everyCall(refsL, snapsL, day, order, bal) ==
    LET recorded ==
            SelectSeq(order, LAMBDA a : _validate_address(a).valid /\ bal[a] > 0)
        snapshot_rows ==
            [i \in DOMAIN recorded |-> SnapshotRow(day, recorded[i], bal[recorded[i]])]
    IN  [out |-> [success |-> TRUE, date |-> day,
                  addresses_checked |-> Len(order),
                  balances_recorded |-> Len(snapshot_rows)],
         snapshots |-> snapsL \o snapshot_rows]

\* ReferralService.snapshot_daily_balances on day `day`; `order` is the
\* iteration order of list(set(...)), bal the balance each address holds.
snapshot_daily_balances(refsL, snapsL, day, order, bal) ==
    IF \E i \in DOMAIN snapsL : snapsL[i].date = day
    THEN [out |-> [success |-> FALSE, error |-> "Snapshot already exists for today"],
          snapshots |-> snapsL]
    ELSE LET recorded ==
                 SelectSeq(order, LAMBDA a : _validate_address(a).valid /\ bal[a] > 0)
             snapshot_rows ==
                 [i \in DOMAIN recorded |-> SnapshotRow(day, recorded[i], bal[recorded[i]])]
         IN  [out |-> [success |-> TRUE, date |-> day,
                       addresses_checked |-> Len(order),
                       balances_recorded |-> Len(snapshot_rows)],
              snapshots |-> snapsL \o snapshot_rows]

(***************************************************************************)
(* HTTP handlers (routers/referrals.py).  A response is                    *)
(*   [op, status, detail, data]: the HTTP status, the HTTPException detail *)
(*   of a failure, the "data" object of a success.                         *)
(***************************************************************************)
NoData == [none |-> TRUE]
HttpError(op, status, detail) ==
    [op |-> op, status |-> status, detail |-> detail, data |-> NoData]
HttpOk(op, data) == [op |-> op, status |-> 200, detail |-> "", data |-> data]

\* the "data" object of the code and regenerate handlers (share_url, which
\* repeats the code, and unlock_progress, which repeats the count, left out)
CodeData(code_data, checksum_addr) ==
    [referral_code |-> code_data.code,
     rarity |-> code_data.rarity,
     rolls_used |-> code_data.rolls_used,
     rolls_remaining |-> code_data.rolls_remaining,
     successful_referrals |-> code_data.successful_referrals,
     address |-> checksum_addr]

\* GET /{address}/code
get_referral_code(codesL, refsL, address, g) ==
    IF ~Web3_is_address(address)
    THEN [resp |-> HttpError("code", 400, "Invalid Ethereum address"),
          codes |-> codesL]
    ELSE LET checksum_addr == Web3_to_checksum_address(address)
             r == get_or_create_referral_code(codesL, refsL, checksum_addr, g)
         IN  [resp |-> HttpOk("code", CodeData(r.out, checksum_addr)),
              codes |-> r.codes]

\* POST /{address}/regenerate
regenerate_handler(codesL, refsL, address, g) ==
    IF ~Web3_is_address(address)
    THEN [resp |-> HttpError("regenerate", 400, "Invalid Ethereum address"),
          codes |-> codesL]
    ELSE LET checksum_addr == Web3_to_checksum_address(address)
             r == regenerate_referral_code(codesL, refsL, checksum_addr, g)
         IN  IF ~r.out.success
             THEN [resp |-> HttpError("regenerate", 400, r.out.error),
                   codes |-> r.codes]
             ELSE [resp |-> HttpOk("regenerate", CodeData(r.out, checksum_addr)),
                   codes |-> r.codes]

\* variant: the self-referral test compares the strings as they are
SameAddress_caseSensitive(x, y) == x = y

\* use_referral_code's self-referral test:
\* referrer_address.lower() == referred_checksum.lower()
SameAddress(x, y) == Lower(x) = Lower(y)

\* POST /use
use_referral_code(codesL, refsL, referral_code, referred0, swap_amount_usdc) ==
    LET addr_info == _validate_address(referred0)
        referred_checksum == addr_info.normalized
        referrer_address == get_address_by_code(codesL, referral_code)
    IN  IF ~addr_info.valid
        THEN [resp |-> HttpError("use", 400, "Invalid address (must be EVM or Solana)"),
              referrals |-> refsL]
        ELSE IF referrer_address = None
        THEN [resp |-> HttpError("use", 404, "Invalid referral code"),
              referrals |-> refsL]
        ELSE IF check_if_referred(refsL, referred_checksum)
        THEN [resp |-> HttpError("use", 400, "Address has already been referred"),
              referrals |-> refsL]
        ELSE IF SameAddress(referrer_address, referred_checksum)
        THEN [resp |-> HttpError("use", 400, "Cannot refer yourself"),
              referrals |-> refsL]
        ELSE LET r == record_referral(codesL, refsL, referrer_address,
                                      referred_checksum, swap_amount_usdc,
                                      referral_code)
             IN  IF ~r.out.success
                 THEN [resp |-> HttpError("use", 400, r.out.error),
                       referrals |-> r.referrals]
                 ELSE [resp |-> HttpOk("use",
                                  [referrer_address |-> referrer_address,
                                   referred_address |-> referred_checksum,
                                   referrer_bonus |-> r.out.referrer_bonus,
                                   referee_bonus |-> r.out.referee_bonus,
                                   is_special |-> r.out.is_special,
                                   description |-> r.out.description]),
                       referrals |-> r.referrals]

\* GET /{address}/stats
get_referral_stats(refsL, snapsL, address) ==
    IF ~Web3_is_address(address)
    THEN HttpError("stats", 400, "Invalid Ethereum address")
    ELSE HttpOk("stats", get_referrer_stats(refsL, snapsL,
                                            Web3_to_checksum_address(address)))

\* POST /snapshot
trigger_daily_snapshot(refsL, snapsL, day, order, bal) ==
    LET r == snapshot_daily_balances(refsL, snapsL, day, order, bal)
    IN  IF ~r.out.success
        THEN [resp |-> HttpError("snapshot", 400, r.out.error), snapshots |-> r.snapshots]
        ELSE [resp |-> HttpOk("snapshot", r.out), snapshots |-> r.snapshots]

(***************************************************************************)
(* Leaderboards of the router.  Staking points come from the staking       *)
(* contracts: `stable` gives, for an address, the points the contract      *)
(* queries add up to (whole points here), `stakers` is the list the event  *)
(* indexer returns.  A leaderboard entry is                                *)
(*   [address, stable_points, referrals, referral_points, referee_bonus,   *)
(*    total_points]  (the balance and staked columns are left out).        *)
(***************************************************************************)
BoardEntry(a, sp, n, rp, rb) ==
    [address |-> a, stable_points |-> sp, referrals |-> n,
     referral_points |-> rp, referee_bonus |-> rb,
     total_points |-> sp + rp + rb]

\* leaderboard[:limit]
Take(seq, limit) == SubSeq(seq, 1, IF limit < Len(seq) THEN limit ELSE Len(seq))

\* leaderboard.sort(key=total_points, reverse=True): descending, and stable
\* (entries of equal total keep their order), so entry i lands after the
\* entries with a higher total and the earlier entries with the same total
SortDescTotal(entries) ==
    LET total(i) == entries[i].total_points
        ahead(i) ==
            {j \in DOMAIN entries :
                total(j) > total(i) \/ (total(j) = total(i) /\ j < i)}
    IN  [k \in DOMAIN entries |->
            entries[CHOOSE i \in DOMAIN entries : Cardinality(ahead(i)) = k - 1]]

\* ReferralService.get_referee_bonus
get_referee_bonus(refsL, address) ==
    IF check_if_referred(refsL, address) THEN REFEREE_BONUS ELSE 0

\* variant: the address is looked up as given among the stored strings
RefereeBonus_asStored(refsL, address) ==
    IF address \in UniqueReferredAddresses(refsL) THEN REFEREE_BONUS ELSE 0

\* the referee bonus of the leaderboards: REFEREE_BONUS if the lower-cased
\* address is in get_all_referred_addresses()
RefereeBonus(refsL, address) ==
    IF Lower(address) \in get_all_referred_addresses(refsL) THEN REFEREE_BONUS ELSE 0

\* GET /leaderboard
leaderboard_handler(refsL, snapsL, limit, stable) ==
    LET referral_data == get_leaderboard(refsL, snapsL, limit)
        \* entries whose address Web3.to_checksum_address rejects are skipped
        usable == SelectSeq(referral_data, LAMBDA e : Web3_is_address(e.address))
        leaderboard ==
            [i \in DOMAIN usable |->
                LET checksum_addr == Web3_to_checksum_address(usable[i].address)
                IN  BoardEntry(checksum_addr, stable[checksum_addr],
                               usable[i].total_referrals,
                               usable[i].referral_points,
                               RefereeBonus(refsL, checksum_addr))]
        sorted == SortDescTotal(leaderboard)
    IN  HttpOk("leaderboard",
               [leaderboard |-> Take(sorted, limit),
                total_entries |-> Len(sorted)])

\* the one element of a singleton set
Only(S) == CHOOSE x \in S : TRUE

\* the outcome of a contract query that raised (amounts and points are >= 0)
Failed == -1

\* "try: x += query() except: pass": a query that raised adds nothing
Signal(r) == IF r = Failed THEN 0 ELSE r

\* variant: one failed staking query discards the other one's points
StablePoints_allOrNothing(q) ==
    IF q.usdx = Failed \/ q.eurx = Failed THEN 0 ELSE q.usdx + q.eurx

\* stable_points of an address, from the outcomes of the USDX and the EURX
\* staking query (whole points)
StablePoints(q) == Signal(q.usdx) + Signal(q.eurx)

\* total_balance of snapshot_daily_balances for an EVM address, from the
\* outcomes of the two wallet and the two staking queries (whole USDX)
TotalBalance(q) ==
    Signal(q.usdx_wallet) + Signal(q.eurx_wallet)
      + Signal(q.usdx_staked) + Signal(q.eurx_staked)

\* variant: the loop over the stakers ends at the first staker that fails
UsableStakers_untilFailure(stakers) ==
    SubSeq(stakers, 1,
           Cardinality({i \in DOMAIN stakers :
                          \A j \in 1..i : Web3_is_address(stakers[j])}))

\* get_full_leaderboard, "for address in all_stakers: try: ... except:
\* continue": a staker whose Web3.to_checksum_address raises is skipped
UsableStakers(stakers) == SelectSeq(stakers, LAMBDA a : Web3_is_address(a))

\* get_full_leaderboard, "Process all stakers from blockchain": the entries
\* put into leaderboard_dict for the stakers, in the order of the list
StakerEntries(refsL, referral_data, stakers, stable) ==
    LET ref_data(a) ==
            LET hits == {i \in DOMAIN referral_data :
                            Lower(referral_data[i].address) = Lower(a)}
            IN  IF hits = {}
                THEN [referrals |-> 0, referral_points |-> 0]
                ELSE LET e == referral_data[CHOOSE i \in hits : TRUE]
                     IN  [referrals |-> e.total_referrals,
                          referral_points |-> e.referral_points]
    IN  SelectSeq([i \in DOMAIN UsableStakers(stakers) |->
                      Only({BoardEntry(Web3_to_checksum_address(a),
                                       stable[Web3_to_checksum_address(a)],
                                       ref_data(a).referrals,
                                       ref_data(a).referral_points,
                                       RefereeBonus(refsL, a)) :
                            a \in {UsableStakers(stakers)[i]}})],
                  LAMBDA e : e.total_points > 0)

\* the keys of leaderboard_dict: address.lower()
DictKeys(entries) == {Lower(entries[i].address) : i \in DOMAIN entries}

\* get_full_leaderboard, "Add referrers who aren't already in the dict"
ReferrerEntries(refsL, referral_data, in_dict) ==
    SelectSeq([i \in DOMAIN referral_data |->
                  BoardEntry(referral_data[i].address, 0,
                             referral_data[i].total_referrals,
                             referral_data[i].referral_points,
                             RefereeBonus(refsL, referral_data[i].address))],
              LAMBDA e : Lower(e.address) \notin in_dict /\ e.total_points > 0)

\* GET /leaderboard-full, with the referral data read from the worksheets;
\* each step's value is computed once and named, as in the handler
get_full_leaderboard(refsL, snapsL, limit, stakers, stable) ==
    Only({
    Only({
    Only({
    Only({ HttpOk("leaderboard-full",
                  [leaderboard |-> Take(sorted, limit),
                   total_entries |-> Len(sorted)]) :
           sorted \in {SortDescTotal(staker_entries \o referrer_entries)} }) :
      referrer_entries \in {ReferrerEntries(refsL, referral_data,
                                            DictKeys(staker_entries))} }) :
      staker_entries \in {StakerEntries(refsL, referral_data, stakers, stable)} }) :
      referral_data \in {get_leaderboard(refsL, snapsL, 10000)} })

\* the orders in which a set can be iterated
Orders(S) ==
    {o \in [1..Cardinality(S) -> S] : \A i, j \in DOMAIN o : o[i] = o[j] => i = j}

\* variant: the rows with total_points > 0 in any order, the first `limit`
db_get_leaderboard_anyOrder(cache, limit) ==
    {Take(o, limit) : o \in Orders({e \in cache : e.total_points > 0})}

\* DatabaseService.get_leaderboard: the rows with total_points > 0, ordered
\* by total_points descending (rows of equal total in any order), the
\* first `limit` of them.  `cache` is the set of rows of leaderboard_cache.
db_get_leaderboard(cache, limit) ==
    LET rows == {e \in cache : e.total_points > 0}
    IN  {Take(o, limit) :
            o \in {q \in Orders(rows) :
                     \A i, j \in DOMAIN q :
                        i < j => q[i].total_points >= q[j].total_points}}

\* DatabaseService.get_total_entries
get_total_entries(cache) == Cardinality({e \in cache : e.total_points > 0})

\* GET /leaderboard-cached: the responses the read can produce
get_leaderboard_cached(cache, limit) ==
    IF get_total_entries(cache) = 0
    THEN {[op |-> "leaderboard-cached", status |-> 200,
           detail |-> "Leaderboard cache is empty",
           data |-> [leaderboard |-> << >>, total_entries |-> 0]]}
    ELSE {HttpOk("leaderboard-cached",
                 [leaderboard |-> l, total_entries |-> get_total_entries(cache)]) :
             l \in db_get_leaderboard(cache, limit)}

(***************************************************************************)
(* Requests the model sends.                                               *)
(***************************************************************************)
EvmForms == {"lower", "upper", "checksum", "badmix"}
OwnerIds == {1, 2}
\* address strings of requests
AddrInputs ==
    {EvmStr(i, f) : i \in OwnerIds, f \in {"lower", "checksum"}}
    \cup {EvmStr(1, "badmix")}
\* code strings of requests: the codes the generator can issue and the
\* special codes as issued, two of them also lower-cased
CodeInputs ==
    PoolCodes
    \cup {CodeStr(n, "", "upper") : n \in SpecialNames}
    \cup {[CodePool[1] EXCEPT !.form = "lower"], CodeStr("PUNK", "", "lower")}
AmountInputs == {4, 100}

(***************************************************************************)
(* Sequential behaviour: one handler at a time, each run to completion.    *)
(***************************************************************************)
Idle == [pc |-> "idle"]

\* no cache update is running
NoRefresh == [running |-> FALSE, before |-> {}, entries |-> << >>, done |-> 0]

Init ==
    /\ codes = << >>
    /\ referrals = << >>
    /\ snapshots = << >>
    /\ today = 0
    /\ procs = [p \in Workers |-> Idle]
    /\ leaderboard_cache = {}
    /\ refresh = NoRefresh
    /\ enabled = TRUE

\* one GET /{address}/code request, from the addresses `addrs`
GetReferralCodeOver(addrs, maxCodes) ==
    \E address \in addrs :
      \E g \in generate_referral_code(codes) :
        \E r \in {get_referral_code(codes, referrals, address, g)} :
            /\ Len(r.codes) <= maxCodes
            /\ codes' = r.codes
            /\ UNCHANGED <<referrals, snapshots, today, procs, leaderboard_cache, refresh, enabled>>

\* one POST /{address}/regenerate request
RegenerateReferralCodeOver(addrs, maxCodes) ==
    \E address \in addrs :
      \E g \in generate_referral_code(Deactivated(codes, address)) :
        \E r \in {regenerate_handler(codes, referrals, address, g)} :
            /\ Len(r.codes) <= maxCodes
            /\ codes' = r.codes
            /\ UNCHANGED <<referrals, snapshots, today, procs, leaderboard_cache, refresh, enabled>>

\* one POST /use request
UseReferralCodeOver(codeStrs, addrs, amounts, maxEvents) ==
    \E referral_code \in codeStrs, referred \in addrs, amount \in amounts :
        \E r \in {use_referral_code(codes, referrals, referral_code, referred, amount)} :
            /\ Len(r.referrals) <= maxEvents
            /\ referrals' = r.referrals
            /\ UNCHANGED <<codes, snapshots, today, procs, leaderboard_cache, refresh, enabled>>

GetReferralCode == GetReferralCodeOver(AddrInputs, MaxCodes)
RegenerateReferralCode == RegenerateReferralCodeOver(AddrInputs, MaxCodes)
UseReferralCode == UseReferralCodeOver(CodeInputs, AddrInputs, AmountInputs, MaxEvents)

Next ==
    \/ GetReferralCode
    \/ RegenerateReferralCode
    \/ UseReferralCode

Spec == Init /\ [][Next]_vars

(***************************************************************************)
(* Roll economy runs: one owner, three addresses that can be referred, so  *)
(* that the owner's referral count crosses UNLOCK_THRESHOLD.               *)
(***************************************************************************)
RollsMaxCodes == 6     \* rows the Codes worksheet may grow to in these runs
RollsMaxEvents == 3    \* rows the Referrals worksheet may grow to

RollsOwners == {EvmStr(1, "checksum")}
RollsReferred == {EvmStr(i, "lower") : i \in 2..4}
RollsCodeInputs == {CodePool[1]}

NextRolls ==
    \/ GetReferralCodeOver(RollsOwners, RollsMaxCodes)
    \/ RegenerateReferralCodeOver(RollsOwners, RollsMaxCodes)
    \/ UseReferralCodeOver(RollsCodeInputs, RollsReferred, {MIN_SWAP_AMOUNT},
                           RollsMaxEvents)

SpecRolls == Init /\ [][NextRolls]_vars

(***************************************************************************)
(* Runs in which the address 0x0000000000000000000000000000000000000000    *)
(* sends requests like any other: Web3.is_address accepts it, and it is    *)
(* the referrer record_referral writes for a special code.                 *)
(***************************************************************************)
ZeroMaxCodes == 2      \* rows the Codes worksheet may grow to in these runs
ZeroMaxEvents == 3     \* rows the Referrals worksheet may grow to

ZeroOwners == {ZERO_ADDRESS, EvmStr(1, "checksum")}
ZeroReferred == {EvmStr(i, "lower") : i \in 0..3}
ZeroCodeInputs == {CodePool[1], CodePool[2], CodeStr("PUNK", "", "upper")}

NextZero ==
    \/ GetReferralCodeOver(ZeroOwners, ZeroMaxCodes)
    \/ RegenerateReferralCodeOver(ZeroOwners, ZeroMaxCodes)
    \/ UseReferralCodeOver(ZeroCodeInputs, ZeroReferred, {MIN_SWAP_AMOUNT},
                           ZeroMaxEvents)

SpecZero == Init /\ [][NextZero]_vars

(***************************************************************************)
(* Every operation of the service, one request at a time.                  *)
(***************************************************************************)
MaxSnapshots == 2      \* rows the DailyBalances worksheet may grow to

AllOwners == {EvmStr(1, "checksum"), EvmStr(2, "lower")}
AllReferred == {EvmStr(2, "checksum"), EvmStr(3, "lower")}
AllCodeInputs == {CodePool[1]}
BalanceInputs == {0, 5 * DAILY_BONUS_RATE_DEN}
LimitInputs == {1, 100}

\* one GET /{address}/stats request: reads, writes nothing
GetReferralStats ==
    \E address \in AllOwners :
        /\ get_referral_stats(referrals, snapshots, address).status = 200
        /\ UNCHANGED vars

\* one leaderboard read of the service: reads, writes nothing
GetLeaderboard ==
    \E limit \in LimitInputs :
        /\ Len(get_leaderboard(referrals, snapshots, limit)) <= limit
        /\ get_all_referred_addresses(referrals) \subseteq
               {Lower(a) : a \in UniqueReferredAddresses(referrals)}
        /\ UNCHANGED vars

\* one POST /snapshot request
TriggerDailySnapshot ==
    \E order \in Orders(UniqueReferredAddresses(referrals)) :
      \E bal \in [UniqueReferredAddresses(referrals) -> BalanceInputs] :
        \E r \in {trigger_daily_snapshot(referrals, snapshots, today, order, bal)} :
            /\ Len(r.snapshots) <= MaxSnapshots
            /\ snapshots' = r.snapshots
            /\ UNCHANGED <<codes, referrals, today, procs, leaderboard_cache, refresh, enabled>>

\* midnight UTC passes
Tick ==
    /\ today < MaxDay
    /\ today' = today + 1
    /\ UNCHANGED <<codes, referrals, snapshots, procs, leaderboard_cache, refresh, enabled>>

NextAll ==
    \/ GetReferralCodeOver(AllOwners, MaxCodes)
    \/ RegenerateReferralCodeOver(AllOwners, MaxCodes)
    \/ UseReferralCodeOver(AllCodeInputs, AllReferred, {MIN_SWAP_AMOUNT}, MaxEvents)
    \/ GetReferralStats
    \/ GetLeaderboard
    \/ TriggerDailySnapshot
    \/ Tick

SpecAll == Init /\ [][NextAll]_vars

(***************************************************************************)
(* Leaderboard runs: two owners whose codes are both used, daily           *)
(* snapshots, and the three leaderboard reads of the router.               *)
(***************************************************************************)
BoardMaxCodes == 2     \* rows the Codes worksheet may grow to in these runs
BoardMaxEvents == 2    \* rows the Referrals worksheet may grow to

BoardOwners == {EvmStr(1, "checksum"), EvmStr(2, "checksum")}
BoardReferred == {EvmStr(i, "lower") : i \in 1..3}
BoardCodeInputs == {CodePool[1], CodePool[2]}
BoardLimits == {1, 2, 100}
\* the addresses the staking contracts are asked about
BoardAddrs == {EvmStr(i, "checksum") : i \in 1..3}
\* staking points of an address: none, or 500
StableInputs == [BoardAddrs -> {0, 500}]
\* the lists of stakers the event indexer can return for these points:
\* every address with staking points, and possibly others, in any order
StakerInputs(stable) ==
    UNION {Orders(S) : S \in {T \in SUBSET BoardAddrs :
                                \A a \in BoardAddrs : stable[a] > 0 => a \in T}}
\* seq with the element x put in after its first k elements
InsertAt(seq, k, x) == SubSeq(seq, 1, k) \o <<x>> \o SubSeq(seq, k + 1, Len(seq))
\* the same lists with a staker whose address does not parse, as the
\* first or the last one
FailingStakerInputs(stable) ==
    UNION {{InsertAt(s, k, BadStr) : k \in {0, Len(s)}} : s \in StakerInputs(stable)}
\* outcomes of the two staking queries for one address: both answered, one
\* of them failed, both failed
StakingQueryInputs ==
    {[usdx |-> 0, eurx |-> 0], [usdx |-> Failed, eurx |-> 500],
     [usdx |-> 500, eurx |-> Failed], [usdx |-> Failed, eurx |-> Failed]}
\* the outcomes with a failed query
FailingQueryInputs == {q \in StakingQueryInputs : q.usdx = Failed}
\* outcomes of the four balance queries of the snapshot for one address
BalanceQueryInputs ==
    {[usdx_wallet |-> 0, eurx_wallet |-> 0, usdx_staked |-> 0, eurx_staked |-> 0],
     [usdx_wallet |-> Failed, eurx_wallet |-> 0, usdx_staked |-> 50, eurx_staked |-> 0],
     [usdx_wallet |-> 20, eurx_wallet |-> Failed, usdx_staked |-> Failed, eurx_staked |-> 30],
     [usdx_wallet |-> Failed, eurx_wallet |-> Failed, usdx_staked |-> Failed,
      eurx_staked |-> Failed]}
\* contents of the leaderboard_cache table
CacheRow(a, t) == [address |-> a, total_points |-> t]
CacheInputs ==
    {{CacheRow(EvmStr(1, "checksum"), t1), CacheRow(EvmStr(2, "checksum"), t2),
      CacheRow(EvmStr(3, "checksum"), t3)} :
        t1 \in {10}, t2 \in {0, 30}, t3 \in {20, 30}}
    \cup {{}, {CacheRow(EvmStr(1, "checksum"), 0)}}

\* one GET /leaderboard request: reads, writes nothing
GetLeaderboardCombined ==
    \E limit \in BoardLimits, stable \in StableInputs :
        /\ leaderboard_handler(referrals, snapshots, limit, stable).status = 200
        /\ UNCHANGED vars

\* one GET /leaderboard-full request: reads, writes nothing
GetFullLeaderboard ==
    \E limit \in BoardLimits, stable \in StableInputs :
      \E stakers \in StakerInputs(stable) \cup FailingStakerInputs(stable) :
        /\ get_full_leaderboard(referrals, snapshots, limit, stakers, stable).status = 200
        /\ UNCHANGED vars

\* one GET /leaderboard-cached request: reads, writes nothing
GetLeaderboardCached ==
    \E limit \in BoardLimits, cache \in CacheInputs :
        /\ \A r \in get_leaderboard_cached(cache, limit) : r.status = 200
        /\ UNCHANGED vars

NextBoard ==
    \/ GetReferralCodeOver(BoardOwners, BoardMaxCodes)
    \/ UseReferralCodeOver(BoardCodeInputs, BoardReferred, {MIN_SWAP_AMOUNT},
                           BoardMaxEvents)
    \/ TriggerDailySnapshot
    \/ GetReferralStats
    \/ GetLeaderboard
    \/ GetLeaderboardCombined
    \/ GetFullLeaderboard
    \/ GetLeaderboardCached

SpecBoard == Init /\ [][NextBoard]_vars

(***************************************************************************)
(* The leaderboard cache.  The cache update computes a leaderboard and     *)
(* stores it entry by entry with upsert_leaderboard_entry, each upsert a   *)
(* transaction of its own; GET /leaderboard-cached reads the table.        *)
(* refresh holds the update in progress: the table as it was when the      *)
(* update began, the entries it stores and how many it has stored.         *)
(***************************************************************************)
\* total_points of the entries an update stores
CachePoints == {10, 30}

\* DatabaseService.upsert_leaderboard_entry: the row of the address is
\* replaced, or added when the address has none
upsert_leaderboard_entry(cache, address, data) ==
    {e \in cache : e.address # address} \cup {CacheRow(address, data.total_points)}

\* DatabaseService.clear_all
clear_all(cache) == {}

\* the leaderboards an update can compute: entries with total_points > 0
\* for some of the addresses, in any order
RefreshInputs ==
    UNION {Orders({CacheRow(a, t[a]) : a \in S}) :
              S \in SUBSET BoardAddrs, t \in [BoardAddrs -> CachePoints]}

\* the update begins: it has computed the entries to store
StartRefresh ==
    /\ ~refresh.running
    /\ \E entries \in RefreshInputs :
          refresh' = [running |-> TRUE, before |-> leaderboard_cache,
                      entries |-> entries, done |-> 0]
    /\ UNCHANGED <<codes, referrals, snapshots, today, procs, leaderboard_cache, enabled>>

\* the update stores its next entry
UpsertNextEntry ==
    /\ refresh.running
    /\ refresh.done < Len(refresh.entries)
    /\ \E e \in {refresh.entries[refresh.done + 1]} :
          leaderboard_cache' = upsert_leaderboard_entry(leaderboard_cache, e.address, e)
    /\ refresh' = [refresh EXCEPT !.done = @ + 1]
    /\ UNCHANGED <<codes, referrals, snapshots, today, procs, enabled>>

\* the update ends after its last entry
FinishRefresh ==
    /\ refresh.running
    /\ refresh.done = Len(refresh.entries)
    /\ refresh' = NoRefresh
    /\ UNCHANGED <<codes, referrals, snapshots, today, procs, leaderboard_cache, enabled>>

\* the table is reset between updates
ClearAll ==
    /\ ~refresh.running
    /\ leaderboard_cache' = clear_all(leaderboard_cache)
    /\ UNCHANGED <<codes, referrals, snapshots, today, procs, refresh, enabled>>

\* one GET /leaderboard-cached request on the table as it is: reads, writes
\* nothing
ReadLeaderboardCache ==
    \E limit \in BoardLimits :
        /\ \A r \in get_leaderboard_cached(leaderboard_cache, limit) : r.status = 200
        /\ UNCHANGED vars

NextCache ==
    \/ StartRefresh
    \/ UpsertNextEntry
    \/ FinishRefresh
    \/ ClearAll
    \/ ReadLeaderboardCache

SpecCache == Init /\ [][NextCache]_vars

(***************************************************************************)
(* The service without its configuration.  ReferralService.__init__ sets   *)
(* enabled to False when the credentials file or the spreadsheet id is     *)
(* missing (or the connection fails); every method then returns at its     *)
(* first statement.  The worksheets outlive the process, so a restart      *)
(* changes enabled and nothing else.                                       *)
(***************************************************************************)
\* the "code" of get_or_create_referral_code's returns without a code
DISABLED == CodeStr("DISABLED", "", "upper")
ERROR == CodeStr("ERROR", "", "upper")

NoStats ==
    [total_referrals |-> 0, signup_points |-> 0, daily_points |-> 0,
     total_referral_points |-> 0, referred_addresses |-> << >>]

\* what the methods return at "if not self.enabled"
NotEnabled ==
    [get_or_create_referral_code |->
         [code |-> DISABLED, rarity |-> "UNKNOWN", rolls_used |-> 0, rolls_remaining |-> 0],
     regenerate_referral_code |-> Fail("Service disabled"),
     get_address_by_code |-> None,
     get_referrer_stats |-> NoStats,
     snapshot_daily_balances |-> Fail("Service disabled")]

\* what they return from "except Exception as e" when their first worksheet
\* call raises
Raised ==
    [get_or_create_referral_code |->
         [code |-> ERROR, rarity |-> "UNKNOWN", rolls_used |-> 0, rolls_remaining |-> 0],
     regenerate_referral_code |-> Fail("str(e)"),
     get_address_by_code |-> None,
     get_referrer_stats |-> NoStats,
     snapshot_daily_balances |-> Fail("str(e)")]

\* the handlers' reply to the request req = [op, address, code] when the
\* methods of the service return svc
ReplyWithout(svc, req) ==
    CASE req.op = "code" ->
            IF ~Web3_is_address(req.address)
            THEN HttpError("code", 400, "Invalid Ethereum address")
            ELSE IF svc.get_or_create_referral_code.code \in {DISABLED, ERROR}
            THEN HttpError("code", 503, "Referral service temporarily unavailable")
            ELSE HttpOk("code", svc.get_or_create_referral_code)
      [] req.op = "regenerate" ->
            IF ~Web3_is_address(req.address)
            THEN HttpError("regenerate", 400, "Invalid Ethereum address")
            ELSE IF ~svc.regenerate_referral_code.success
            THEN HttpError("regenerate", 400, svc.regenerate_referral_code.error)
            ELSE HttpOk("regenerate", svc.regenerate_referral_code)
      [] req.op = "use" ->
            IF ~_validate_address(req.address).valid
            THEN HttpError("use", 400, "Invalid address (must be EVM or Solana)")
            ELSE IF svc.get_address_by_code = None
            THEN HttpError("use", 404, "Invalid referral code")
            ELSE HttpOk("use", svc.get_address_by_code)
      [] req.op = "stats" ->
            IF ~Web3_is_address(req.address)
            THEN HttpError("stats", 400, "Invalid Ethereum address")
            ELSE HttpOk("stats", svc.get_referrer_stats)
      [] req.op = "snapshot" ->
            IF ~svc.snapshot_daily_balances.success
            THEN HttpError("snapshot", 400, svc.snapshot_daily_balances.error)
            ELSE HttpOk("snapshot", svc.snapshot_daily_balances)

\* requests with well-formed addresses; CodePool[1] is the first code
\* issued, CodePool[5] a code no address owns
ConfigRequests ==
    [op : {"code", "regenerate", "use", "stats", "snapshot"},
     address : AllOwners \cup AllReferred,
     code : {CodePool[1], CodePool[5]}]

\* the process starts again, with or without its configuration
Restart ==
    /\ \E e \in BOOLEAN : enabled' = e
    /\ UNCHANGED <<codes, referrals, snapshots, today, procs, leaderboard_cache, refresh>>

\* one request to the service that is not configured: answered, nothing
\* read or written
RefusedRequest ==
    /\ ~enabled
    /\ \E req \in ConfigRequests :
          ReplyWithout(NotEnabled, req).status \in {200, 400, 404, 503}
    /\ UNCHANGED vars

NextConfig ==
    \/ Restart
    \/ enabled /\ GetReferralCodeOver(AllOwners, MaxCodes)
    \/ enabled /\ RegenerateReferralCodeOver(AllOwners, MaxCodes)
    \/ enabled /\ UseReferralCodeOver(AllCodeInputs, AllReferred, {MIN_SWAP_AMOUNT},
                                      MaxEvents)
    \/ enabled /\ TriggerDailySnapshot
    \/ RefusedRequest

SpecConfig == Init /\ [][NextConfig]_vars

(***************************************************************************)
(* Runs with owners of both account kinds.  GET /{address}/code lets only  *)
(* EVM addresses through; get_or_create_referral_code itself takes any     *)
(* string, so here the service method is called directly, with an EVM      *)
(* address and with a base-58 public key, and POST /use is served as       *)
(* usual.                                                                  *)
(***************************************************************************)
SolMaxCodes == 3       \* rows the Codes worksheet may grow to in these runs
SolMaxEvents == 2      \* rows the Referrals worksheet may grow to

SolOwners == {EvmStr(1, "checksum"), SolStr(1, "orig")}
SolReferred == {EvmStr(2, "lower"), SolStr(2, "orig"), SolStr(1, "orig")}
SolCodeInputs == {CodePool[1], CodePool[2], CodePool[3]}

\* one call of ReferralService.get_or_create_referral_code
GetOrCreateCode ==
    \E address \in SolOwners :
      \E g \in generate_referral_code(codes) :
        \E r \in {get_or_create_referral_code(codes, referrals, address, g)} :
            /\ Len(r.codes) <= SolMaxCodes
            /\ codes' = r.codes
            /\ UNCHANGED <<referrals, snapshots, today, procs, leaderboard_cache, refresh, enabled>>

\* one call of ReferralService.regenerate_referral_code
RegenerateCode ==
    \E address \in SolOwners :
      \E g \in generate_referral_code(Deactivated(codes, address)) :
        \E r \in {regenerate_referral_code(codes, referrals, address, g)} :
            /\ Len(r.codes) <= SolMaxCodes
            /\ codes' = r.codes
            /\ UNCHANGED <<referrals, snapshots, today, procs, leaderboard_cache, refresh, enabled>>

NextSol ==
    \/ GetOrCreateCode
    \/ RegenerateCode
    \/ UseReferralCodeOver(SolCodeInputs, SolReferred, {MIN_SWAP_AMOUNT},
                           SolMaxEvents)

SpecSol == Init /\ [][NextSol]_vars

(***************************************************************************)
(* One call of generate_referral_code, draw by draw.  procs[1] holds the   *)
(* call's position and locals: the attempt it is in, the draws of the      *)
(* attempt and what they selected.  The Codes worksheet is one of          *)
(* GenWorksheets and is only read.                                         *)
(***************************************************************************)
max_attempts == 100

\* the sum of the first k weights of a table
RECURSIVE CumulativeWeight(_, _)
CumulativeWeight(table, k) ==
    IF k = 0 THEN 0 ELSE CumulativeWeight(table, k - 1) + table[k].weight

\* the values of random.random() the model draws for a table: 0, the
\* largest draw, and each threshold with the draw that follows it
BoundaryDraws(table) ==
    ({0, DrawScale - 1}
     \cup {CumulativeWeight(table, k) : k \in DOMAIN table}
     \cup {CumulativeWeight(table, k) + 1 : k \in DOMAIN table})
    \cap 0..(DrawScale - 1)

\* the draws of a run: all of BoundaryDraws, or only the two ends
DrawsOf(kind, table) ==
    IF kind = "ends" THEN {0, DrawScale - 1} ELSE BoundaryDraws(table)

\* the values random.choice(list) returns in the model: first and last
ChoiceDraws(list) == {list[1], list[Len(list)]}

\* the values random.randint returns in the model: the ends of the range,
\* a number in the middle, and one number of each special list
RandintDraws(length) ==
    IF length = 3 THEN {100, 500, 999, 420, 111, 123}
                  ELSE {10, 50, 99, 42, 11, 12}

GenFrame(pc, attempt, tier_rand, tier_name, words, length_rand, length, pattern_type, number, result) ==
    [pc |-> pc, attempt |-> attempt, tier_rand |-> tier_rand,
     tier_name |-> tier_name, words |-> words, length_rand |-> length_rand,
     length |-> length, pattern_type |-> pattern_type, number |-> number,
     result |-> result]

NoResult == [code |-> None, rarity |-> "UNKNOWN"]

\* tier_data = self.RARITY_TIERS[tier_name]
TierData(tier_name) ==
    RARITY_TIERS[CHOOSE k \in DOMAIN RARITY_TIERS : RARITY_TIERS[k].key = tier_name]

\* the numbers the model's draws can produce for a length
GenNumbers(length) ==
    IF length = 1
    THEN ChoiceDraws(SPECIAL_NUMBERS[1].lucky)
         \cup ChoiceDraws(SPECIAL_NUMBERS[1].regular)
    ELSE ChoiceDraws(SPECIAL_NUMBERS[length].ultra_rare)
         \cup ChoiceDraws(SPECIAL_NUMBERS[length].rare)
         \cup ChoiceDraws(SPECIAL_NUMBERS[length].uncommon)
         \cup (RandintDraws(length) \ special_set(length))

\* the candidates the model's draws can compose from the given tiers, each
\* as tier index, length and number in one integer
GenCandidates(tiers) ==
    UNION {{k * 10000 + length * 1000 + n : k \in tiers, n \in GenNumbers(length)} :
              length \in 1..3}

\* the candidate of such an integer
CandidateCode(x) ==
    ComposeCode([words |-> RARITY_TIERS[x \div 10000].colors \o "-"
                           \o RARITY_TIERS[x \div 10000].words,
                 length |-> (x % 10000) \div 1000,
                 number |-> x % 1000])

\* a Codes worksheet that holds the candidates of the given tiers, each the
\* first code of an address of its own
WorksheetOf(tiers) ==
    [i \in 1..Cardinality(GenCandidates(tiers)) |->
        CodeRow(EvmStr(i, "lower"),
                CandidateCode(CHOOSE x \in GenCandidates(tiers) :
                    Cardinality({y \in GenCandidates(tiers) : y < x}) = i - 1),
                "COMMON", 1, TRUE)]

\* the Codes worksheets of these runs: empty, one that holds every COMMON
\* candidate, and one that holds every candidate
GenWorksheets ==
    {<< >>, WorksheetOf({Len(RARITY_TIERS)}), WorksheetOf(DOMAIN RARITY_TIERS)}

InitGen ==
    /\ codes \in GenWorksheets
    /\ referrals = << >>
    /\ snapshots = << >>
    /\ today = 0
    /\ procs = [p \in Workers |-> Idle]
    /\ leaderboard_cache = {}
    /\ refresh = NoRefresh
    /\ enabled = TRUE

\* the start of an attempt: tier_name = self._select_rarity_tier()
GenSelectTierOver(kind) ==
    /\ procs[1].pc \in {"idle", "collided"}
    /\ procs[1].pc = "collided" => procs[1].attempt < max_attempts
    /\ \E rand \in DrawsOf(kind, RARITY_TIERS) :
         procs' = [procs EXCEPT ![1] =
             GenFrame("tier",
                      IF procs[1].pc = "idle" THEN 1 ELSE procs[1].attempt + 1,
                      rand, _select_rarity_tier(rand), "", -1, 0, "", -1, NoResult)]
    /\ UNCHANGED <<codes, referrals, snapshots, today, leaderboard_cache, refresh, enabled>>

\* color and word of the tier, then length = self._select_number_length()
GenSelectLengthOver(kind) ==
    /\ procs[1].pc = "tier"
    /\ \E color \in {TierData(procs[1].tier_name).colors},
          word \in {TierData(procs[1].tier_name).words},
          rand \in DrawsOf(kind, LENGTH_WEIGHTS) :
         procs' = [procs EXCEPT ![1] =
             [@ EXCEPT !.pc = "length",
                       !.words = color \o "-" \o word,
                       !.length_rand = rand,
                       !.length = _select_number_length(rand)]]
    /\ UNCHANGED <<codes, referrals, snapshots, today, leaderboard_cache, refresh, enabled>>

\* _generate_special_number(length) up to the choice of a listed number or
\* the entry into the loop that draws a common one
GenSelectPatternOver(kind) ==
    /\ procs[1].pc = "length"
    /\ \E rand \in DrawsOf(kind, NUMBER_PATTERN_WEIGHTS[procs[1].length]) :
        \E pt \in {PatternType(procs[1].length, rand)} :
          IF pt = "common"
          THEN procs' = [procs EXCEPT ![1] =
                   [@ EXCEPT !.pc = "sampling", !.tier_rand = -1,
                             !.length_rand = -1, !.pattern_type = pt]]
          ELSE \E num \in (IF pt = "none"
                            THEN RandintDraws(procs[1].length)
                            ELSE ChoiceDraws(SPECIAL_NUMBERS[procs[1].length][pt])) :
                 procs' = [procs EXCEPT ![1] =
                     [@ EXCEPT !.pc = "number", !.tier_rand = -1,
                               !.length_rand = -1, !.pattern_type = pt,
                               !.number = num]]
    /\ UNCHANGED <<codes, referrals, snapshots, today, leaderboard_cache, refresh, enabled>>

\* "while True: num = random.randint(..)": a draw that is in special_set
GenSampleRejected ==
    /\ procs[1].pc = "sampling"
    /\ \E num \in RandintDraws(procs[1].length) \cap RandintRange(procs[1].length) :
         /\ num \in special_set(procs[1].length)
         /\ procs' = [procs EXCEPT ![1] = [@ EXCEPT !.number = num]]
    /\ UNCHANGED <<codes, referrals, snapshots, today, leaderboard_cache, refresh, enabled>>

\* "if num not in special_set: return num"
GenSampleAccepted ==
    /\ procs[1].pc = "sampling"
    /\ \E num \in RandintDraws(procs[1].length) \cap RandintRange(procs[1].length) :
         /\ num \notin special_set(procs[1].length)
         /\ procs' = [procs EXCEPT ![1] = [@ EXCEPT !.pc = "number", !.number = num]]
    /\ UNCHANGED <<codes, referrals, snapshots, today, leaderboard_cache, refresh, enabled>>

\* the candidate is composed and looked up in the worksheet
GenCheck ==
    /\ procs[1].pc = "number"
    /\ \E code \in {ComposeCode([words |-> procs[1].words,
                                   length |-> procs[1].length,
                                   number |-> procs[1].number])} :
         IF code \notin ExistingCodes(codes)
         THEN procs' = [procs EXCEPT ![1] =
                  [@ EXCEPT !.pc = "done",
                            !.result = [code |-> code, rarity |-> procs[1].tier_name]]]
         ELSE procs' = [procs EXCEPT ![1] = [@ EXCEPT !.pc = "collided"]]
    /\ UNCHANGED <<codes, referrals, snapshots, today, leaderboard_cache, refresh, enabled>>

\* after the last attempt: the code with the time suffix
GenFallback ==
    /\ procs[1].pc = "collided"
    /\ procs[1].attempt = max_attempts
    /\ \E timestamp \in TimeMod100 :
         procs' = [procs EXCEPT ![1] =
             [@ EXCEPT !.pc = "done",
                       !.result = [code |-> CodeStr(procs[1].words, timestamp, "upper"),
                                   rarity |-> procs[1].tier_name]]]
    /\ UNCHANGED <<codes, referrals, snapshots, today, leaderboard_cache, refresh, enabled>>

\* the caller has the result; the next call can start
GenReturn ==
    /\ procs[1].pc = "done"
    /\ procs' = [procs EXCEPT ![1] = Idle]
    /\ UNCHANGED <<codes, referrals, snapshots, today, leaderboard_cache, refresh, enabled>>

GenSelectTier == GenSelectTierOver("boundary")
GenSelectLength == GenSelectLengthOver("boundary")
GenSelectPattern == GenSelectPatternOver("boundary")

NextGen ==
    \/ GenSelectTier
    \/ GenSelectLength
    \/ GenSelectPattern
    \/ GenSampleRejected
    \/ GenSampleAccepted
    \/ GenCheck
    \/ GenFallback
    \/ GenReturn

SpecGen == InitGen /\ [][NextGen]_vars

\* the same call with the draws of random.random() at the two ends only
NextGenEnds ==
    \/ GenSelectTierOver("ends")
    \/ GenSelectLengthOver("ends")
    \/ GenSelectPatternOver("ends")
    \/ GenSampleRejected
    \/ GenSampleAccepted
    \/ GenCheck
    \/ GenFallback
    \/ GenReturn

\* the call keeps running: every step it can take is taken, and the
\* random draws of the loop for a common number are fair, so a number the
\* loop can accept is drawn at some time
SpecGenFair ==
    /\ InitGen /\ [][NextGenEnds]_vars
    /\ WF_vars(GenSelectTierOver("ends"))
    /\ WF_vars(GenSelectLengthOver("ends"))
    /\ WF_vars(GenSelectPatternOver("ends"))
    /\ WF_vars(GenSampleAccepted)
    /\ WF_vars(GenCheck)
    /\ WF_vars(GenFallback)
    /\ WF_vars(GenReturn)

(***************************************************************************)
(* Runs in which a worksheet call of a regenerate request may fail (the    *)
(* Sheets API answers with an error or not at all).                        *)
(***************************************************************************)
FaultMaxCodes == 4     \* rows the Codes worksheet may grow to in these runs

FaultOwners == {EvmStr(1, "checksum"), EvmStr(2, "lower")}

\* one POST /{address}/regenerate request during which a worksheet call
\* raises
RegenerateWithFault ==
    \E address \in FaultOwners, failing \in StoreCalls :
      \E g \in generate_referral_code(Deactivated(codes, address)) :
        \E r \in {regenerate_with_fault(codes, referrals,
                                         Web3_to_checksum_address(address),
                                         g, failing)} :
            /\ Len(r.codes) <= FaultMaxCodes
            /\ codes' = r.codes
            /\ UNCHANGED <<referrals, snapshots, today, procs, leaderboard_cache, refresh, enabled>>

NextFault ==
    \/ GetReferralCodeOver(FaultOwners, FaultMaxCodes)
    \/ RegenerateReferralCodeOver(FaultOwners, FaultMaxCodes)
    \/ RegenerateWithFault

SpecFault == Init /\ [][NextFault]_vars

(***************************************************************************)
(* Runs in which the DailyBalances worksheet is also edited by hand: the   *)
(* worksheets are shared Google Sheets, and a balance cell may come to     *)
(* hold text or nothing.                                                   *)
(***************************************************************************)
SheetMaxEvents == 2    \* rows the Referrals worksheet may grow to in these runs
SheetMaxSnapshots == 3 \* rows the DailyBalances worksheet may grow to
SheetMaxDay == 1       \* days that pass

SheetOwners == {EvmStr(1, "checksum")}
SheetReferred == {EvmStr(2, "lower"), EvmStr(3, "lower")}

\* a balance cell of the DailyBalances worksheet is overwritten
EditBalanceCell ==
    \E i \in DOMAIN snapshots :
        /\ snapshots[i].usdx_balance # NotANumber
        /\ snapshots' = [snapshots EXCEPT ![i].usdx_balance = NotANumber]
        /\ UNCHANGED <<codes, referrals, today, procs, leaderboard_cache, refresh, enabled>>

\* one POST /snapshot request
SheetSnapshot ==
    \E order \in Orders(UniqueReferredAddresses(referrals)) :
      \E bal \in [UniqueReferredAddresses(referrals) -> BalanceInputs] :
        \E r \in {trigger_daily_snapshot(referrals, snapshots, today, order, bal)} :
            /\ Len(r.snapshots) <= SheetMaxSnapshots
            /\ snapshots' = r.snapshots
            /\ UNCHANGED <<codes, referrals, today, procs, leaderboard_cache, refresh, enabled>>

\* midnight UTC passes
SheetTick ==
    /\ today < SheetMaxDay
    /\ today' = today + 1
    /\ UNCHANGED <<codes, referrals, snapshots, procs, leaderboard_cache, refresh, enabled>>

NextSheet ==
    \/ GetReferralCodeOver(SheetOwners, 1)
    \/ UseReferralCodeOver({CodePool[1]}, SheetReferred, {MIN_SWAP_AMOUNT},
                           SheetMaxEvents)
    \/ SheetSnapshot
    \/ SheetTick
    \/ EditBalanceCell

SpecSheet == Init /\ [][NextSheet]_vars

(***************************************************************************)
(* Concurrent behaviour: the workers serve requests side by side.  The     *)
(* handlers take no lock, so a handler is a sequence of worksheet reads    *)
(* and writes, and another worker's read or write may fall between any two *)
(* of them.  procs[p] holds worker p's position and locals.                *)
(***************************************************************************)
ConcOwners == {EvmStr(1, "checksum")}
ConcReferred == {EvmStr(2, "lower")}
ConcCodeInputs == {CodePool[1]}

CodesPcs == {"get_generate", "get_append", "regen_count", "regen_loop", "regen_append"}
EventsPcs == {"use_check", "rec_benefits", "rec_read", "rec_append"}
\* requests in flight that may still append to a worksheet
InFlight(pcs) == Cardinality({p \in Workers : procs[p].pc \in pcs})

At(p, pc) == procs[p].pc = pc
Goto(p, locals) == procs' = [procs EXCEPT ![p] = locals]

\* GET /{address}/code up to get_all_records: an active row is returned,
\* otherwise the handler goes on to generate a code
ConcGetRead ==
    \E p \in Workers, address0 \in ConcOwners :
        /\ At(p, "idle")
        /\ Len(codes) + InFlight(CodesPcs) < MaxCodes
        /\ IF ~Web3_is_address(address0) \/ ActiveRows(codes, address0) # {}
           THEN UNCHANGED procs
           ELSE Goto(p, [pc |-> "get_generate",
                         address |-> Lower(Web3_to_checksum_address(address0))])
        /\ UNCHANGED <<codes, referrals, snapshots, today, leaderboard_cache, refresh, enabled>>

\* generate_referral_code called by get_or_create_referral_code
ConcGetGenerate ==
    \E p \in Workers :
        /\ At(p, "get_generate")
        /\ \E g \in generate_referral_code(codes) :
             Goto(p, [pc |-> "get_append", address |-> procs[p].address, g |-> g])
        /\ UNCHANGED <<codes, referrals, snapshots, today, leaderboard_cache, refresh, enabled>>

\* get_or_create_referral_code's append_row
ConcGetAppend ==
    \E p \in Workers :
        /\ At(p, "get_append")
        /\ codes' = Append(codes, CodeRow(procs[p].address, procs[p].g.code,
                                          procs[p].g.rarity, 1, TRUE))
        /\ Goto(p, Idle)
        /\ UNCHANGED <<referrals, snapshots, today, leaderboard_cache, refresh, enabled>>

\* POST /{address}/regenerate up to get_all_records: user_codes and
\* current_rolls_used are taken from this read
ConcRegenRead ==
    \E p \in Workers, address0 \in ConcOwners :
        /\ At(p, "idle")
        /\ Len(codes) + InFlight(CodesPcs) < MaxCodes
        /\ IF ~Web3_is_address(address0) \/ UserRows(codes, address0) = {}
           THEN UNCHANGED procs
           ELSE Goto(p, [pc |-> "regen_count",
                         address |-> Lower(Web3_to_checksum_address(address0)),
                         active |-> ActiveRows(codes, address0),
                         cur |-> CurrentRollsUsed(codes, address0),
                         seen |-> Len(codes)])
        /\ UNCHANGED <<codes, referrals, snapshots, today, leaderboard_cache, refresh, enabled>>

\* _count_successful_referrals and the roll check
ConcRegenCount ==
    \E p \in Workers :
        /\ At(p, "regen_count")
        /\ IF NoRollsLeft(procs[p].cur, MaxRolls(referrals, procs[p].address))
           THEN Goto(p, Idle)
           ELSE Goto(p, [procs[p] EXCEPT !.pc = "regen_loop"])
        /\ UNCHANGED <<codes, referrals, snapshots, today, leaderboard_cache, refresh, enabled>>

\* one update_cell of the loop over the rows read as active
ConcRegenDeactivate ==
    \E p \in Workers :
        /\ At(p, "regen_loop")
        /\ procs[p].active # {}
        /\ LET i == CHOOSE i \in procs[p].active : \A j \in procs[p].active : i <= j
           IN  /\ codes' = DeactivateRows(codes, {i})
               /\ Goto(p, [procs[p] EXCEPT !.active = @ \ {i}])
        /\ UNCHANGED <<referrals, snapshots, today, leaderboard_cache, refresh, enabled>>

\* generate_referral_code called by regenerate_referral_code, after the loop
ConcRegenGenerate ==
    \E p \in Workers :
        /\ At(p, "regen_loop")
        /\ procs[p].active = {}
        /\ \E g \in generate_referral_code(codes) :
             Goto(p, [pc |-> "regen_append", address |-> procs[p].address,
                      cur |-> procs[p].cur, seen |-> procs[p].seen, g |-> g])
        /\ UNCHANGED <<codes, referrals, snapshots, today, leaderboard_cache, refresh, enabled>>

\* regenerate_referral_code's append_row; the handler then builds its reply
ConcRegenAppend ==
    \E p \in Workers :
        /\ At(p, "regen_append")
        /\ codes' = Append(codes, RegenRow(codes, procs[p].address,
                                           procs[p].cur, procs[p].g))
        /\ Goto(p, [pc |-> "regen_reply", address |-> procs[p].address,
                    seen |-> procs[p].seen, row |-> Len(codes) + 1])
        /\ UNCHANGED <<referrals, snapshots, today, leaderboard_cache, refresh, enabled>>

\* regenerate's reply is sent
ConcRegenReply ==
    \E p \in Workers :
        /\ At(p, "regen_reply")
        /\ Goto(p, Idle)
        /\ UNCHANGED <<codes, referrals, snapshots, today, leaderboard_cache, refresh, enabled>>

\* POST /use up to get_address_by_code
ConcUseResolve ==
    \E p \in Workers, referral_code \in ConcCodeInputs, referred0 \in ConcReferred :
        /\ At(p, "idle")
        /\ Len(referrals) + InFlight(EventsPcs) < MaxEvents
        /\ LET addr_info == _validate_address(referred0)
               referrer_address == get_address_by_code(codes, referral_code)
           IN  IF ~addr_info.valid \/ referrer_address = None
               THEN UNCHANGED procs
               ELSE Goto(p, [pc |-> "use_check",
                             referral_code |-> referral_code,
                             referred |-> addr_info.normalized,
                             referrer |-> referrer_address])
        /\ UNCHANGED <<codes, referrals, snapshots, today, leaderboard_cache, refresh, enabled>>

\* check_if_referred and the self-referral test
ConcUseCheck ==
    \E p \in Workers :
        /\ At(p, "use_check")
        /\ IF \/ check_if_referred(referrals, procs[p].referred)
              \/ SameAddress(procs[p].referrer, procs[p].referred)
           THEN Goto(p, Idle)
           ELSE Goto(p, [procs[p] EXCEPT !.pc = "rec_benefits"])
        /\ UNCHANGED <<codes, referrals, snapshots, today, leaderboard_cache, refresh, enabled>>

\* record_referral up to get_code_benefits and the address validations
ConcRecBenefits ==
    \E p \in Workers :
        /\ At(p, "rec_benefits")
        /\ LET code_benefits == get_code_benefits(codes, procs[p].referral_code)
               referrer_info == _validate_address(procs[p].referrer)
               referred_info == _validate_address(procs[p].referred)
           IN  IF \/ ~code_benefits.is_valid
                  \/ procs[p].referrer # SPECIAL_CODE /\ ~referrer_info.valid
                  \/ ~referred_info.valid
               THEN Goto(p, Idle)
               ELSE Goto(p, [pc |-> "rec_read",
                             referral_code |-> procs[p].referral_code,
                             referred |-> referred_info.normalized,
                             referrer |-> IF procs[p].referrer = SPECIAL_CODE
                                          THEN ZERO_ADDRESS
                                          ELSE referrer_info.normalized,
                             min_amount |-> code_benefits.min_swap])
        /\ UNCHANGED <<codes, referrals, snapshots, today, leaderboard_cache, refresh, enabled>>

\* record_referral's read of the Referrals worksheet, the duplicate test and
\* the minimum test
ConcRecRead ==
    \E p \in Workers :
        /\ At(p, "rec_read")
        /\ IF \/ ReferredRows(referrals, procs[p].referred) # {}
              \/ BelowMinimum(MIN_SWAP_AMOUNT, procs[p].min_amount)
           THEN Goto(p, Idle)
           ELSE Goto(p, [procs[p] EXCEPT !.pc = "rec_append"])
        /\ UNCHANGED <<codes, referrals, snapshots, today, leaderboard_cache, refresh, enabled>>

\* record_referral's append_row
ConcRecAppend ==
    \E p \in Workers :
        /\ At(p, "rec_append")
        /\ referrals' = Append(referrals,
                               ReferralRow(procs[p].referrer, procs[p].referral_code,
                                           procs[p].referred, MIN_SWAP_AMOUNT))
        /\ Goto(p, Idle)
        /\ UNCHANGED <<codes, snapshots, today, leaderboard_cache, refresh, enabled>>

NextConc ==
    \/ ConcGetRead
    \/ ConcGetGenerate
    \/ ConcGetAppend
    \/ ConcRegenRead
    \/ ConcRegenCount
    \/ ConcRegenDeactivate
    \/ ConcRegenGenerate
    \/ ConcRegenAppend
    \/ ConcRegenReply
    \/ ConcUseResolve
    \/ ConcUseCheck
    \/ ConcRecBenefits
    \/ ConcRecRead
    \/ ConcRecAppend

SpecConc == Init /\ [][NextConc]_vars

(***************************************************************************)
(* Properties.                                                             *)
(***************************************************************************)
ValidAddrInputs == {a \in AddrInputs : _validate_address(a).valid}
\* the AlreadyReferred failure (the handler's wording, or the service's)
IsAlreadyReferred(rsp) ==
    /\ rsp.status = 400
    /\ rsp.detail \in {"Address has already been referred",
                       "Address already referred"}
IsSelfReferral(rsp) == rsp.status = 400 /\ rsp.detail = "Cannot refer yourself"
IsNoRollsRemaining(rsp) == rsp.status = 400 /\ rsp.detail = "No rolls remaining"
\* number of Referrals rows for an address
EventCount(refsL, address) == Cardinality(ReferredRows(refsL, address))

\* C1 (as claimed): at most one ReferralEvent per referred address, and a
\* useCode call for an address that already has an event returns
\* AlreadyReferred whatever code it names, the ledger staying as it is.
C1_AlreadyReferredWhateverCode ==
    /\ \A a \in ValidAddrInputs : EventCount(referrals, a) <= 1
    /\ \A a \in ValidAddrInputs, c \in CodeInputs, amt \in AmountInputs :
         EventCount(referrals, a) = 1 =>
            LET r == use_referral_code(codes, referrals, c, a, amt)
            IN  IsAlreadyReferred(r.resp) /\ r.referrals = referrals

\* C1 (amended): at most one ReferralEvent per referred address (compared
\* case-insensitively), and a useCode call that names a code that resolves
\* to an owner, for an address that already has an event, returns
\* AlreadyReferred and leaves the address's event count at 1.
C1_AlreadyReferredResolvedCode ==
    /\ \A i, j \in DOMAIN referrals :
         i # j => Lower(referrals[i].referred_address)
                    # Lower(referrals[j].referred_address)
    /\ \A a \in ValidAddrInputs, c \in CodeInputs, amt \in AmountInputs :
         (EventCount(referrals, a) = 1 /\ get_address_by_code(codes, c) # None) =>
            LET r == use_referral_code(codes, referrals, c, a, amt)
            IN  /\ IsAlreadyReferred(r.resp)
                /\ r.referrals = referrals
                /\ EventCount(r.referrals, a) = 1

\* C1 witness: an address was referred through one code, and a second call
\* for another spelling of it, naming a code of another owner, is refused.
C1_Witness ==
    \E i \in DOMAIN referrals, a \in ValidAddrInputs, c \in CodeInputs :
        /\ Lower(a) = Lower(referrals[i].referred_address)
        /\ a # referrals[i].referred_address
        /\ get_address_by_code(codes, c) \notin {None, SPECIAL_CODE}
        /\ referrals[i].referrer_address = ZERO_ADDRESS
        /\ IsAlreadyReferred(use_referral_code(codes, referrals, c, a, 100).resp)

\* C3: every address that has a Codes row has exactly one active row.
C3_ExactlyOneActiveRow ==
    \A i \in DOMAIN codes :
        Cardinality(ActiveRows(codes, codes[i].address)) = 1

\* C3 witness: an address regenerated (two rows or more) next to another
\* address's row.
C3_Witness ==
    \E i, j \in DOMAIN codes :
        /\ Lower(codes[i].address) # Lower(codes[j].address)
        /\ Cardinality(UserRows(codes, codes[i].address)) >= 2
        /\ Cardinality(ActiveRows(codes, codes[i].address)) = 1

\* C5: getOrCreate is idempotent per address: on an address without rows it
\* appends exactly one row (rolls_used 1, active); a call that follows it,
\* in any spelling of the address, returns the same code and appends nothing.
C5_GetOrCreateIdempotent ==
    \A a \in ValidAddrInputs :
      \A g \in generate_referral_code(codes) :
        LET r1 == get_referral_code(codes, referrals, a, g)
        IN  /\ r1.resp.status = 200
            /\ UserRows(codes, a) = {} =>
                 r1.codes = Append(codes, CodeRow(Lower(a), g.code, g.rarity, 1, TRUE))
            /\ UserRows(codes, a) # {} => r1.codes = codes
            /\ \A b \in ValidAddrInputs :
                 Lower(b) = Lower(a) =>
                   \A g2 \in generate_referral_code(r1.codes) :
                     LET r2 == get_referral_code(r1.codes, referrals, b, g2)
                     IN  /\ r2.resp.status = 200
                         /\ r2.resp.data.referral_code = r1.resp.data.referral_code
                         /\ r2.codes = r1.codes

\* C5 witness: an address holds the one row its first call appended, and a
\* further call in another spelling returns that row's code.
C5_Witness ==
    \E i \in DOMAIN codes, a \in ValidAddrInputs :
        /\ UserRows(codes, a) = {i}
        /\ a # codes[i].address
        /\ codes[i].rolls_used = 1 /\ codes[i].is_active
        /\ \A g \in generate_referral_code(codes) :
             LET r == get_referral_code(codes, referrals, a, g)
             IN  r.resp.data.referral_code = codes[i].referral_code /\ r.codes = codes

\* C6: regenerate at rolls_used >= max_rolls returns NoRollsRemaining and
\* writes nothing; no row is written with rolls_used above max_rolls of its
\* address at the time of writing.
C6_NoRollsRemaining ==
    /\ [](\A a \in RollsOwners :
            (/\ UserRows(codes, a) # {}
             /\ CurrentRollsUsed(codes, a) >= MaxRolls(referrals, a)) =>
               \A g \in generate_referral_code(Deactivated(codes, a)) :
                 LET r == regenerate_handler(codes, referrals, a, g)
                 IN  IsNoRollsRemaining(r.resp) /\ r.codes = codes)
    /\ [][Len(codes') > Len(codes) =>
            codes'[Len(codes')].rolls_used
                <= MaxRolls(referrals, codes'[Len(codes')].address)]_vars

\* C6 witness: an address has used its three rolls and is refused.
C6_Witness ==
    \E a \in RollsOwners :
        /\ UserRows(codes, a) # {}
        /\ CurrentRollsUsed(codes, a) = BASE_ROLLS + BONUS_ROLLS
        /\ MaxRolls(referrals, a) = BASE_ROLLS + BONUS_ROLLS
        /\ \A g \in generate_referral_code(Deactivated(codes, a)) :
             IsNoRollsRemaining(regenerate_handler(codes, referrals, a, g).resp)

\* C7: a successful regenerate leaves every row that was active for the
\* address inactive, appends exactly one row for it, active and with
\* rolls_used = (highest rolls_used of the address before) + 1, and leaves
\* the rows of other addresses as they were.
C7_RegenerateEffect ==
    \A a \in ValidAddrInputs :
      \A g \in generate_referral_code(Deactivated(codes, a)) :
        LET r == regenerate_handler(codes, referrals, a, g)
            n == Len(codes)
        IN  r.resp.status = 200 =>
              /\ Len(r.codes) = n + 1
              /\ r.codes[n + 1] =
                   CodeRow(Lower(a), g.code, g.rarity,
                           CurrentRollsUsed(codes, a) + 1, TRUE)
              /\ r.resp.data.referral_code = g.code
              /\ r.resp.data.rolls_used = CurrentRollsUsed(codes, a) + 1
              /\ \A i \in 1..n :
                   IF i \in UserRows(codes, a)
                   THEN r.codes[i] = [codes[i] EXCEPT !.is_active = FALSE]
                   ELSE r.codes[i] = codes[i]
              /\ ActiveRows(r.codes, a) = {n + 1}

\* C7 witness: an address has regenerated (old row inactive, new row active
\* with rolls_used 2) while another address's row stayed active, and a
\* further regenerate of it succeeds.
C7_Witness ==
    \E i, j, k \in DOMAIN codes :
        /\ i < j
        /\ codes[i].address = codes[j].address
        /\ ~codes[i].is_active /\ codes[j].is_active
        /\ codes[j].rolls_used = 2
        /\ codes[k].address # codes[i].address /\ codes[k].is_active
        /\ \E g \in generate_referral_code(Deactivated(codes, codes[i].address)) :
             regenerate_handler(codes, referrals, codes[i].address, g).resp.status = 200

\* C9 (as claimed): every code ever issued to an address, active or not,
\* resolves to that address, and useCode with it, a valid not-yet-referred
\* address other than the owner and an amount >= the minimum succeeds and
\* records the owner as referrer.
C9_IssuedCodesKeepCrediting ==
    \A i \in DOMAIN codes :
        /\ Lower(get_address_by_code(codes, codes[i].referral_code))
              = Lower(codes[i].address)
        /\ \A b \in ValidAddrInputs :
             (EventCount(referrals, b) = 0 /\ Lower(b) # Lower(codes[i].address)) =>
               LET r == use_referral_code(codes, referrals,
                                          codes[i].referral_code, b, MIN_SWAP_AMOUNT)
               IN  /\ r.resp.status = 200
                   /\ Lower(r.referrals[Len(r.referrals)].referrer_address)
                        = Lower(codes[i].address)

\* C10: useCode with a code that resolves to address A and referred_address
\* a spelling of A, A not yet referred, returns SelfReferral and appends no
\* ReferralEvent, whatever the amount.
C10_SelfReferral ==
    \A c \in CodeInputs, a \in ValidAddrInputs, amt \in AmountInputs :
        LET owner == get_address_by_code(codes, c)
        IN  (/\ owner \notin {None, SPECIAL_CODE}
             /\ Lower(owner) = Lower(a)
             /\ EventCount(referrals, a) = 0) =>
               LET r == use_referral_code(codes, referrals, c, a, amt)
               IN  IsSelfReferral(r.resp) /\ r.referrals = referrals

\* C10 witness: an owner uses its own code, spelled in another letter case
\* than the ledger's, with an amount that meets the minimum, and is refused.
C10_Witness ==
    \E i \in DOMAIN codes, a \in ValidAddrInputs :
        /\ Lower(a) = codes[i].address /\ a # codes[i].address
        /\ EventCount(referrals, a) = 0
        /\ IsSelfReferral(use_referral_code(codes, referrals,
                              [codes[i].referral_code EXCEPT !.form = "lower"],
                              a, MIN_SWAP_AMOUNT).resp)

\* C2 (as claimed): under concurrent useCode calls the Referral Ledger never
\* holds two ReferralEvents for one referred address.
C2_AtMostOneEventPerReferred ==
    \A i, j \in DOMAIN referrals :
        Lower(referrals[i].referred_address) = Lower(referrals[j].referred_address)
            => i = j

\* C4: two regenerates of one address that both read the Code Ledger before
\* either appended end with both new rows active and with the same
\* rolls_used, so the address has two active rows.
C4_InterleavedRegenerates ==
    \A p, q \in Workers :
        (/\ p # q
         /\ At(p, "regen_reply") /\ At(q, "regen_reply")
         /\ procs[p].address = procs[q].address
         /\ procs[p].seen = procs[q].seen) =>
            /\ codes[procs[p].row].is_active
            /\ codes[procs[q].row].is_active
            /\ codes[procs[p].row].rolls_used = codes[procs[q].row].rolls_used
            /\ {procs[p].row, procs[q].row} \subseteq ActiveRows(codes, procs[p].address)

\* C4 witness: both workers have appended after reading the same ledger.
C4_Witness ==
    \E p, q \in Workers :
        /\ p # q
        /\ At(p, "regen_reply") /\ At(q, "regen_reply")
        /\ procs[p].address = procs[q].address
        /\ procs[p].seen = procs[q].seen
        /\ Cardinality(ActiveRows(codes, procs[p].address)) = 2
        /\ codes[procs[p].row].rolls_used = codes[procs[q].row].rolls_used

\* C8: the Code Ledger is append-only: a step keeps every row, changes at
\* most is_active of a row and only from true to false, and only as part of
\* a regenerate of that row's address; steps that write the Referral Ledger
\* or the DailyBalances worksheet, and the read-only operations, leave the
\* Code Ledger as it is.
C8_CodeLedgerAppendOnly ==
    [][/\ Len(codes') >= Len(codes)
       /\ \A i \in DOMAIN codes :
            \/ codes'[i] = codes[i]
            \/ /\ codes[i].is_active
               /\ codes'[i] = [codes[i] EXCEPT !.is_active = FALSE]
               /\ \E a \in AllOwners :
                    /\ Lower(a) = Lower(codes[i].address)
                    /\ \E g \in generate_referral_code(Deactivated(codes, a)) :
                         codes' = regenerate_handler(codes, referrals, a, g).codes
       /\ (referrals' # referrals \/ snapshots' # snapshots \/ today' # today)
            => codes' = codes
       /\ (UseReferralCodeOver(AllCodeInputs, AllReferred, {MIN_SWAP_AMOUNT}, MaxEvents)
           \/ GetReferralStats \/ GetLeaderboard \/ TriggerDailySnapshot)
            => codes' = codes]_vars

\* C8 witness: a regenerate has cleared a row's flag, and a referral and a
\* snapshot have been recorded.
C8_Witness ==
    /\ \E i \in DOMAIN codes : ~codes[i].is_active
    /\ referrals # << >>
    /\ snapshots # << >>

\* the typed failure a useCode reply stands for
FailureKind(rsp) ==
    CASE rsp.status = 200 -> "Success"
      [] rsp.detail = "Invalid address (must be EVM or Solana)" -> "InvalidAddress"
      [] rsp.status = 404 /\ rsp.detail = "Invalid referral code" -> "UnknownCode"
      [] IsAlreadyReferred(rsp) -> "AlreadyReferred"
      [] IsSelfReferral(rsp) -> "SelfReferral"
      [] rsp.detail = "Swap amount must be at least min_swap USDC" -> "BelowMinimum"
      [] OTHER -> "Other"

\* the rules of useCode a request breaks, each stated on the ledgers alone
BreaksInvalidAddress(a) == ~(Web3_is_address(a) \/ Pubkey_from_string_ok(a))
BreaksUnknownCode(c) ==
    /\ ~IsSpecial(c)
    /\ \A i \in DOMAIN codes : Upper(codes[i].referral_code) # Upper(c)
BreaksAlreadyReferred(a) ==
    \E i \in DOMAIN referrals : Lower(referrals[i].referred_address) = Lower(a)
BreaksSelfReferral(c, a) ==
    /\ ~IsSpecial(c)
    /\ \E i \in DOMAIN codes :
         /\ Upper(codes[i].referral_code) = Upper(c)
         /\ \A j \in DOMAIN codes : Upper(codes[j].referral_code) = Upper(c) => i <= j
         /\ Lower(codes[i].address) = Lower(a)
MinSwapOf(c) ==
    IF IsSpecial(c) THEN SPECIAL_CODES[c.words].min_swap ELSE MIN_SWAP_AMOUNT
BreaksBelowMinimum(c, amt) == amt < MinSwapOf(c)

\* the first broken rule in the order InvalidAddress, UnknownCode,
\* AlreadyReferred, SelfReferral, BelowMinimum
FirstBroken(c, a, amt) ==
    CASE BreaksInvalidAddress(a) -> "InvalidAddress"
      [] BreaksUnknownCode(c) -> "UnknownCode"
      [] BreaksAlreadyReferred(a) -> "AlreadyReferred"
      [] BreaksSelfReferral(c, a) -> "SelfReferral"
      [] BreaksBelowMinimum(c, amt) -> "BelowMinimum"
      [] OTHER -> "Success"

\* C11: the failure a useCode call returns is the first rule it breaks in the
\* order InvalidAddress, UnknownCode, AlreadyReferred, SelfReferral,
\* BelowMinimum, and the call succeeds when it breaks none.
C11_FirstFailureWins ==
    \A c \in CodeInputs, a \in AddrInputs, amt \in AmountInputs :
        FailureKind(use_referral_code(codes, referrals, c, a, amt).resp)
            = FirstBroken(c, a, amt)

\* C11 witness: an address that was referred uses a code it owns with an
\* amount below the minimum, and the reply is AlreadyReferred.
C11_Witness ==
    \E c \in CodeInputs, a \in AddrInputs :
        /\ BreaksAlreadyReferred(a)
        /\ BreaksSelfReferral(c, a)
        /\ BreaksBelowMinimum(c, 4)
        /\ FailureKind(use_referral_code(codes, referrals, c, a, 4).resp)
              = "AlreadyReferred"

\* amounts on both sides of each minimum
BoundaryAmounts == {4, 5, 9, 10, 99, 100}

\* the minimum the requirement states for a code
StatedMinSwap(c) ==
    CASE c.num = "" /\ c.words = "PUNK" -> 5
      [] c.num = "" /\ c.words = "LAUNCH" -> 10
      [] c.num = "" /\ c.words = "VIP" -> 5
      [] OTHER -> 100

\* C12: a useCode call that breaks no other rule succeeds exactly when
\* swap_amount >= min_swap of the code (5 for PUNK and VIP, 10 for LAUNCH,
\* 100 for an ordinary code), the minimum itself included; otherwise it
\* fails with BelowMinimum.
C12_MinimumBoundary ==
    \A c \in CodeInputs, a \in AddrInputs, amt \in BoundaryAmounts :
        (/\ ~BreaksInvalidAddress(a)
         /\ ~BreaksUnknownCode(c)
         /\ ~BreaksAlreadyReferred(a)
         /\ ~BreaksSelfReferral(c, a)) =>
            LET r == use_referral_code(codes, referrals, c, a, amt)
            IN  /\ (r.resp.status = 200) <=> (amt >= StatedMinSwap(c))
                /\ r.resp.status # 200 => FailureKind(r.resp) = "BelowMinimum"

\* C12 witness: a referral at exactly the ordinary minimum was recorded, and
\* for an address not yet referred an ordinary code decides between 99 and
\* 100 and a special code between 4 and 5.
C12_Witness ==
    /\ \E i \in DOMAIN referrals :
         /\ referrals[i].swap_amount_usdc = MIN_SWAP_AMOUNT
         /\ ~IsSpecial(referrals[i].referral_code)
    /\ \E c \in CodeInputs, a \in AddrInputs :
         /\ ~IsSpecial(c)
         /\ use_referral_code(codes, referrals, c, a, 100).resp.status = 200
         /\ FailureKind(use_referral_code(codes, referrals, c, a, 99).resp) = "BelowMinimum"
         /\ use_referral_code(codes, referrals, CodeStr("PUNK", "", "lower"), a, 5).resp.status = 200
         /\ FailureKind(use_referral_code(codes, referrals,
                                          CodeStr("PUNK", "", "lower"), a, 4).resp)
              = "BelowMinimum"

\* every request string the model knows: valid and invalid, either namespace
AnyAddrInputs == AddrInputs \cup {SolStr(1, "orig"), SolStr(1, "lowered"), BadStr}

\* C13: useCode is all-or-nothing: a call that returns a failure leaves the
\* Referral Ledger as it was, a call that returns success appends exactly
\* one ReferralEvent (this call's) to it, and no useCode step changes the
\* Code Ledger, the DailyBalances worksheet or anything else.
C13_AllOrNothing ==
    /\ [](\A c \in CodeInputs, a \in AnyAddrInputs, amt \in {4, 5, 100} :
            LET r == use_referral_code(codes, referrals, c, a, amt)
            IN  /\ r.resp.status # 200 => r.referrals = referrals
                /\ r.resp.status = 200 =>
                     /\ Len(r.referrals) = Len(referrals) + 1
                     /\ SubSeq(r.referrals, 1, Len(referrals)) = referrals
                     /\ LET e == r.referrals[Len(r.referrals)]
                        IN  /\ e.referral_code = c
                            /\ e.referred_address = _validate_address(a).normalized
                            /\ e.swap_amount_usdc = amt)
    /\ [][UseReferralCodeOver(AllCodeInputs, AllReferred, {MIN_SWAP_AMOUNT}, MaxEvents) =>
            /\ codes' = codes /\ snapshots' = snapshots
            /\ today' = today /\ procs' = procs
            /\ leaderboard_cache' = leaderboard_cache /\ refresh' = refresh
            /\ enabled' = enabled
            /\ \/ referrals' = referrals
               \/ /\ Len(referrals') = Len(referrals) + 1
                  /\ SubSeq(referrals', 1, Len(referrals)) = referrals]_vars

\* C13 witness: with rows in all three worksheets, one request fails and
\* another succeeds.
C13_Witness ==
    /\ codes # << >> /\ referrals # << >> /\ snapshots # << >>
    /\ \E c \in CodeInputs, a, b \in AnyAddrInputs :
         /\ FailureKind(use_referral_code(codes, referrals, c, a, 99).resp) = "BelowMinimum"
         /\ FailureKind(use_referral_code(codes, referrals, c, b, 100).resp) = "AlreadyReferred"
         /\ use_referral_code(codes, referrals, c, a, 100).resp.status = 200

\* the bonus points and description the special codes are stated to carry
StatedBonusPoints(c) ==
    CASE IsSpecial(c) /\ c.words = "PUNK" -> 500
      [] IsSpecial(c) /\ c.words = "LAUNCH" -> 250
      [] IsSpecial(c) /\ c.words = "VIP" -> 1000
      [] OTHER -> 0
StatedDescription(c) ==
    IF IsSpecial(c) THEN SPECIAL_CODES[c.words].description
                    ELSE "Standard referral code"

\* C14: a successful useCode returns referrer_bonus 1000 when the code is
\* owned by an address and 0 when it is a special code, referee_bonus 1000
\* plus the code's bonus points (0, or 500 / 250 / 1000 for PUNK / LAUNCH /
\* VIP), is_special and the code's description.
C14_BonusesReturned ==
    \A c \in CodeInputs, a \in ZeroReferred, amt \in AmountInputs :
        LET r == use_referral_code(codes, referrals, c, a, amt).resp
        IN  r.status = 200 =>
              /\ r.data.referrer_bonus = IF IsSpecial(c) THEN 0 ELSE SIGNUP_BONUS
              /\ r.data.referee_bonus = REFEREE_BONUS + StatedBonusPoints(c)
              /\ r.data.is_special = IsSpecial(c)
              /\ r.data.description = StatedDescription(c)

\* rows of the Referral Ledger whose referrer is the address, ignoring case
ReferrerEventCount(a) ==
    Cardinality({i \in DOMAIN referrals :
                    Lower(referrals[i].referrer_address) = Lower(a)})

\* C15: every getOrCreate response, for an existing code or a new one,
\* reports rolls_remaining = max(0, max_rolls(address) - rolls_used), with
\* max_rolls taken from the Referral Ledger as it is at the call.
C15_RollsRemainingRecomputed ==
    \A a \in ZeroOwners \cup AddrInputs :
      \A g \in generate_referral_code(codes) :
        LET r == get_referral_code(codes, referrals, a, g).resp
            max_rolls == IF ReferrerEventCount(a) >= 3 THEN 6 ELSE 3
        IN  r.status = 200 =>
              r.data.rolls_remaining = Max(0, max_rolls - r.data.rolls_used)

C17_NoExistingCode ==
    \A a \in ValidAddrInputs :
      UserRows(codes, a) = {} =>
        \A g \in generate_referral_code(Deactivated(codes, a)) :
          LET s == regenerate_referral_code(codes, referrals, a, g)
              r == regenerate_handler(codes, referrals, a, g)
          IN  /\ s.out = [success |-> FALSE, error |-> "No referral code found"]
              /\ s.codes = codes
              /\ r.resp = HttpError("regenerate", 400, "No referral code found")
              /\ r.codes = codes

\* C17 witness: the ledgers hold rows of another address, and an address
\* without a Codes row has used a code and regenerates.
C17_Witness ==
    \E a \in ValidAddrInputs :
        /\ UserRows(codes, a) = {}
        /\ codes # << >>
        /\ check_if_referred(referrals, a)
        /\ \A g \in generate_referral_code(Deactivated(codes, a)) :
             regenerate_handler(codes, referrals, a, g).resp.status = 400

\* rows of the Code Ledger whose code is the input, ignoring letter case
RowsWithCode(c) ==
    {i \in DOMAIN codes :
        /\ codes[i].referral_code.words = c.words
        /\ codes[i].referral_code.num = c.num}
\* PUNK, LAUNCH or VIP in any letter case
StatedSpecial(c) == c.num = "" /\ c.words \in {"PUNK", "LAUNCH", "VIP"}

\* C18: resolveOwner(code) returns the address of a Code Ledger row whose
\* code equals the input ignoring letter case, whatever the row's is_active
\* flag; null when no row matches and the code is not special; the sentinel
\* owner for a special code in any letter case, whatever the ledger holds.
C18_ResolveOwner ==
    \A c \in CodeInputs :
        LET owner == get_address_by_code(codes, c)
        IN  /\ StatedSpecial(c) => owner = SPECIAL_CODE
            /\ (~StatedSpecial(c) /\ RowsWithCode(c) = {}) => owner = None
            /\ (~StatedSpecial(c) /\ RowsWithCode(c) # {}) =>
                 owner \in {codes[i].address : i \in RowsWithCode(c)}

\* C18 witness: a code typed in lower case resolves to the owner of a row
\* that is no longer active, another code has no row, and a lower-case
\* special code resolves to the sentinel.
C18_Witness ==
    LET c == [CodePool[1] EXCEPT !.form = "lower"]
    IN  /\ RowsWithCode(c) # {}
        /\ \A i \in RowsWithCode(c) : ~codes[i].is_active
        /\ get_address_by_code(codes, c) = codes[1].address
        /\ get_address_by_code(codes, CodePool[5]) = None
        /\ get_address_by_code(codes, CodeStr("PUNK", "", "lower")) = SPECIAL_CODE

\* lower-cased addresses that are referrer, or referred, in the Referral Ledger
LedgerReferrers == {Lower(referrals[i].referrer_address) : i \in DOMAIN referrals}
LedgerReferred == {Lower(referrals[i].referred_address) : i \in DOMAIN referrals}

\* referral points of an address per the Points Aggregator: SIGNUP_BONUS per
\* event it is referrer of, plus balance * DAILY_BONUS_RATE per snapshot of
\* an address it referred
ReferralScore(a) ==
    ReferrerEventCount(a) * SIGNUP_BONUS
    + DailyPoints(snapshots,
                  {Lower(referrals[i].referred_address) :
                      i \in {j \in DOMAIN referrals :
                                Lower(referrals[j].referrer_address) = Lower(a)}})

\* grand total of an address: staking points, referral points, referee bonus
GrandTotal(a, stable) ==
    stable[Web3_to_checksum_address(a)] + ReferralScore(a)
    + (IF Lower(a) \in LedgerReferred THEN REFEREE_BONUS ELSE 0)

\* the sequences addrs / scores list the min(limit, n) candidates of highest
\* total, each once, with its total, in non-increasing order
IsTopN(addrs, scores, limit, total) ==
    LET cands == DOMAIN total
        n == Cardinality(cands)
    IN  /\ Len(addrs) = IF limit < n THEN limit ELSE n
        /\ \A i \in DOMAIN addrs :
             addrs[i] \in cands /\ scores[i] = total[addrs[i]]
        /\ \A i, j \in DOMAIN addrs :
             i < j => addrs[i] # addrs[j] /\ scores[i] >= scores[j]
        /\ \A c \in cands :
             (\A i \in DOMAIN addrs : addrs[i] # c) =>
                \A i \in DOMAIN addrs : scores[i] >= total[c]

C19_ServiceForm ==
    \A limit \in BoardLimits :
        LET l == get_leaderboard(referrals, snapshots, limit)
        IN  IsTopN([i \in DOMAIN l |-> Lower(l[i].address)],
                   [i \in DOMAIN l |-> l[i].referral_points],
                   limit,
                   [a \in LedgerReferrers |-> ReferralScore(a)])

C19_CombinedForm ==
    \A limit \in BoardLimits, stable \in StableInputs :
        LET l == leaderboard_handler(referrals, snapshots, limit, stable).data.leaderboard
        IN  IsTopN([i \in DOMAIN l |-> Lower(l[i].address)],
                   [i \in DOMAIN l |-> l[i].total_points],
                   limit,
                   [a \in LedgerReferrers |-> GrandTotal(a, stable)])

C19_CachedForm ==
    \A limit \in BoardLimits, cache \in CacheInputs :
      \A r \in get_leaderboard_cached(cache, limit) :
        LET l == r.data.leaderboard
            rows == {e \in cache : e.total_points > 0}
        IN  IsTopN([i \in DOMAIN l |-> l[i].address],
                   [i \in DOMAIN l |-> l[i].total_points],
                   limit,
                   [a \in {e.address : e \in rows} |->
                       (CHOOSE e \in rows : e.address = a).total_points])

\* C19: getLeaderboard(limit), in each of its forms (the service's referral
\* leaderboard, GET /leaderboard, the cached read), returns exactly the
\* min(limit, n) entries of largest total among all n candidates, in
\* non-increasing order of the total.
C19_TopEntries == C19_ServiceForm /\ C19_CombinedForm /\ C19_CachedForm

\* C20: the full leaderboard has an entry for every address that is a
\* staker or appears in the Referral Ledger (as referrer or as referred
\* address) and whose grand total is > 0, and no entry with a total <= 0.
C20_FullLeaderboardComplete ==
    \A stable \in StableInputs :
      \A stakers \in StakerInputs(stable) :
        LET l == get_full_leaderboard(referrals, snapshots, 100, stakers, stable)
                    .data.leaderboard
            participants ==
                {Lower(stakers[i]) : i \in DOMAIN stakers}
                \cup LedgerReferrers \cup LedgerReferred
        IN  /\ \A a \in participants :
                 GrandTotal(a, stable) > 0 =>
                    \E i \in DOMAIN l :
                        /\ Lower(l[i].address) = a
                        /\ l[i].total_points = GrandTotal(a, stable)
            /\ \A i \in DOMAIN l : l[i].total_points > 0

\* the entry is the sum of its three parts, each the address's own, and
\* its referee bonus is 1000 exactly when the address is a referred address
\* of the Referral Ledger
EntryAddsUp(e, stable) ==
    /\ e.total_points = e.stable_points + e.referral_points + e.referee_bonus
    /\ e.stable_points = stable[Web3_to_checksum_address(e.address)]
    /\ e.referral_points = ReferralScore(e.address)
    /\ e.referee_bonus =
          IF \E i \in DOMAIN referrals :
                Lower(referrals[i].referred_address) = Lower(e.address)
          THEN 1000 ELSE 0
    /\ e.referee_bonus = get_referee_bonus(referrals, e.address)

StatsInputs == BoardAddrs \cup {Lower(a) : a \in BoardAddrs}

\* snapshot rows of addresses referred by a that hold the balance b
SnapshotsOfReferred(a, b) ==
    {i \in DOMAIN snapshots :
        /\ snapshots[i].usdx_balance = b
        /\ \E j \in DOMAIN referrals :
              /\ Lower(referrals[j].referrer_address) = Lower(a)
              /\ Lower(referrals[j].referred_address)
                    = Lower(snapshots[i].referred_address)}

\* signup_points and daily_points as stated: 1000 per event with the
\* address as referrer; balance * 0.1 per snapshot row of an address it
\* referred (the balances of the runs are 0 and 50 USDX: 5 points a row)
StatedSignupPoints(a) == 1000 * ReferrerEventCount(a)
StatedDailyPoints(a) == 5 * Cardinality(SnapshotsOfReferred(a, 50))
StatedRefereeBonus(a) ==
    IF \E i \in DOMAIN referrals : Lower(referrals[i].referred_address) = Lower(a)
    THEN 1000 ELSE 0

\* C22 as stated: getReferrerStats reports total referral-linked points =
\* signup_points + daily_points + referee_bonus, with signup_points = 1000
\* per event as referrer, daily_points = balance * 0.1 summed over every
\* snapshot of a referred address, and referee_bonus = 1000 iff the address
\* was itself referred.
C22_StatsIncludeRefereeBonus ==
    \A a \in StatsInputs :
        LET d == get_referral_stats(referrals, snapshots, a).data
        IN  /\ d.signup_points = StatedSignupPoints(a)
            /\ d.daily_points = StatedDailyPoints(a)
            /\ d.total_referral_points =
                  StatedSignupPoints(a) + StatedDailyPoints(a) + StatedRefereeBonus(a)

\* C22 amended: getReferrerStats reports total_referral_points =
\* signup_points + daily_points, with signup_points and daily_points as
\* stated; the referee bonus is not part of it (get_referee_bonus reports
\* it, and the leaderboards add it).
C22_ReferrerStats ==
    \A a \in StatsInputs :
        LET r == get_referral_stats(referrals, snapshots, a)
            d == r.data
        IN  /\ r.status = 200
            /\ d.total_referrals = ReferrerEventCount(a)
            /\ d.signup_points = StatedSignupPoints(a)
            /\ d.daily_points = StatedDailyPoints(a)
            /\ d.total_referral_points = StatedSignupPoints(a) + StatedDailyPoints(a)
            /\ get_referee_bonus(referrals, a) = StatedRefereeBonus(a)

\* C22 witness: an address that was itself referred has referred another
\* address, and a snapshot row with a balance counts for it.
C22_Witness ==
    /\ Len(snapshots) = 2
    /\ \E a \in StatsInputs :
         LET d == get_referral_stats(referrals, snapshots, a).data
         IN  /\ StatedRefereeBonus(a) = 1000
             /\ d.signup_points = 1000
             /\ d.daily_points = 5
             /\ d.total_referral_points = 1005

\* every way one POST /snapshot request can run in the current state
SnapshotRuns ==
    {trigger_daily_snapshot(referrals, snapshots, today, order, bal) :
        order \in Orders(UniqueReferredAddresses(referrals)),
        bal \in [UniqueReferredAddresses(referrals) -> BalanceInputs]}

\* C23: with snapshot and use-code calls run one at a time, the snapshot
\* ledger holds at most one row per (date, referred_address) pair, and a
\* snapshot call on a date that already has a row fails (400) and appends
\* nothing.
C23_OneSnapshotPerDay ==
    /\ \A i, j \in DOMAIN snapshots :
          (/\ snapshots[i].date = snapshots[j].date
           /\ Lower(snapshots[i].referred_address)
                 = Lower(snapshots[j].referred_address)) => i = j
    /\ (\E i \in DOMAIN snapshots : snapshots[i].date = today)
          => \A r \in SnapshotRuns :
                /\ r.resp.status = 400
                /\ r.snapshots = snapshots

\* C23 witness: the same address has a row on two dates, today is one of
\* them, and a further snapshot request would find a balance to record.
C23_Witness ==
    /\ Len(snapshots) = 2
    /\ snapshots[1].date # snapshots[2].date
    /\ snapshots[1].referred_address = snapshots[2].referred_address
    /\ snapshots[2].date = today
    /\ Cardinality(UniqueReferredAddresses(referrals)) = 2

\* the staking points the queries' outcomes add up to, per address
StableOf(qs) == [a \in DOMAIN qs |-> StablePoints(qs[a])]

\* the balances the snapshot's queries add up to, per address
BalanceOf(qs) == [a \in DOMAIN qs |-> TotalBalance(qs[a])]

\* C24: in a batch (daily snapshot, full leaderboard build) a failure while
\* processing one address (an address that does not parse, a failing
\* balance or staking query) does not abort the batch: the batch returns
\* success, and every other address gets the row or entry it gets when the
\* failing address is not there.
C24_BatchSurvivesFailure ==
    /\ \A qs \in [BoardAddrs -> FailingQueryInputs] :
         \A stakers \in FailingStakerInputs(StableOf(qs)) :
            LET r == get_full_leaderboard(referrals, snapshots, 100, stakers,
                                          StableOf(qs))
            IN  /\ r.status = 200
                /\ r = get_full_leaderboard(referrals, snapshots, 100,
                                            SelectSeq(stakers, LAMBDA a : a # BadStr),
                                            StableOf(qs))
                /\ \A a \in BoardAddrs :
                      StablePoints(qs[a]) > 0 =>
                        \E i \in DOMAIN r.data.leaderboard :
                            r.data.leaderboard[i].address = a
    /\ (\A i \in DOMAIN snapshots : snapshots[i].date # today) =>
         \A qs \in [UniqueReferredAddresses(referrals) -> BalanceQueryInputs] :
           \A order \in Orders(UniqueReferredAddresses(referrals)) :
             LET r == trigger_daily_snapshot(referrals, snapshots, today, order,
                                             BalanceOf(qs))
             IN  /\ r.resp.status = 200
                 /\ r.resp.data.addresses_checked = Len(order)
                 /\ \A a \in UniqueReferredAddresses(referrals) :
                       (\E f \in DOMAIN qs[a] : qs[a][f] # Failed /\ qs[a][f] > 0)
                         => \E i \in DOMAIN r.snapshots :
                              /\ i > Len(snapshots)
                              /\ r.snapshots[i].date = today
                              /\ r.snapshots[i].referred_address = a
                              /\ r.snapshots[i].usdx_balance = 50

\* C24 witness: two addresses were referred and none snapshotted today; a
\* snapshot in which every query for one of them fails records the other,
\* and a full leaderboard whose first staker does not parse and whose
\* second staker's USDX query fails lists that staker and a third one.
C24_Witness ==
    /\ Cardinality(UniqueReferredAddresses(referrals)) = 2
    /\ \A i \in DOMAIN snapshots : snapshots[i].date # today
    /\ \E qs \in [UniqueReferredAddresses(referrals) -> BalanceQueryInputs] :
         \E order \in Orders(UniqueReferredAddresses(referrals)) :
            /\ \A f \in DOMAIN qs[order[1]] : qs[order[1]][f] = Failed
            /\ Len(trigger_daily_snapshot(referrals, snapshots, today, order,
                                          BalanceOf(qs)).snapshots)
                  = Len(snapshots) + 1
    /\ \E qs \in [BoardAddrs -> FailingQueryInputs] :
         \E stakers \in FailingStakerInputs(StableOf(qs)) :
            /\ Len(stakers) = 3
            /\ stakers[1] = BadStr
            /\ qs[stakers[2]].usdx = Failed
            /\ Len(get_full_leaderboard(referrals, snapshots, 100, stakers,
                                        StableOf(qs)).data.leaderboard) >= 2

\* the points of the staking queries that answered
AnsweredPoints(q) ==
    (IF q.usdx = Failed THEN 0 ELSE q.usdx) + (IF q.eurx = Failed THEN 0 ELSE q.eurx)

\* the entry of address a, if the leaderboard has one, is made of the
\* answered staking queries, the referral points and the referee bonus
EntryWithAnswered(board, a, q) ==
    LET hits == {i \in DOMAIN board : board[i].address = a}
        expected == AnsweredPoints(q) + ReferralScore(a) + StatedRefereeBonus(a)
    IN  /\ Cardinality(hits) <= 1
        /\ \A i \in hits :
              /\ board[i].stable_points = AnsweredPoints(q)
              /\ board[i].referral_points = ReferralScore(a)
              /\ board[i].referee_bonus = StatedRefereeBonus(a)
              /\ board[i].total_points = expected

IsSentinel(r) ==
    /\ r.detail = "Leaderboard cache is empty"
    /\ r.data.leaderboard = << >>
    /\ r.data.total_entries = 0

RECURSIVE RefreshResult(_, _)
RefreshResult(entries, cache) ==
    IF entries = << >>
    THEN cache
    ELSE RefreshResult(Tail(entries),
                       upsert_leaderboard_entry(cache, Head(entries).address,
                                                Head(entries)))

\* a read while an update runs returns what a read of the table before the
\* update, or of the table after it, returns
C27_ReadsSeeWholeRefresh ==
    refresh.running =>
        \A limit \in BoardLimits :
            get_leaderboard_cached(leaderboard_cache, limit) \subseteq
                get_leaderboard_cached(refresh.before, limit)
                  \cup get_leaderboard_cached(
                          RefreshResult(refresh.entries, refresh.before), limit)

\* storing the same entries a second time leaves the rows as they are
\* (last_updated is not part of a row here)
C27_RefreshIdempotent ==
    \A entries \in RefreshInputs :
        RefreshResult(entries, RefreshResult(entries, leaderboard_cache))
            = RefreshResult(entries, leaderboard_cache)

\* C27: a cached leaderboard read that runs concurrently with a refresh (a
\* sequence of per-address upserts) observes either the complete
\* pre-refresh or the complete post-refresh contents, never a mixture; and
\* running the same refresh twice leaves the cache entries as after
\* running it once.
C27_RefreshAtomicIdempotent == C27_ReadsSeeWholeRefresh /\ C27_RefreshIdempotent

\* the digits of a numeric suffix
DigitCount(c) == Len(c.num)

\* the codes the generator can return are those of GenerateDraws
C28_DrawsAreTheGenerator ==
    generate_referral_code(codes)
        = {[code |-> d.code, rarity |-> d.rarity] : d \in GenerateDraws(codes)}

\* a code returned by one of the attempts has as many digits as the length
\* drawn in that attempt
C28_AttemptSuffixLength ==
    \A d \in GenerateDraws(codes) : ~d.fallback => DigitCount(d.code) = d.length

\* C28: for every code the generator returns, the numeric suffix has
\* exactly as many digits as the length (1, 2 or 3) drawn for that code,
\* zero-padded when needed.
C28_SuffixLength ==
    \A d \in GenerateDraws(codes) : DigitCount(d.code) = d.length

\* a code returned by one of the attempts is in no row of the worksheet
C29_AttemptCodesAreNew ==
    \A d \in GenerateDraws(codes) : ~d.fallback => d.code \notin ExistingCodes(codes)

\* C29: historical codes are never reused: every code getOrCreate or
\* regenerate stores differs from the code of every row already in the Code
\* Ledger, active or deactivated, so all codes of the ledger are pairwise
\* distinct.
C29_CodesPairwiseDistinct ==
    \A i, j \in DOMAIN codes :
        codes[i].referral_code = codes[j].referral_code => i = j

\* the replies the configured service can give to a request on the ledgers
\* as they are
ConfiguredReplies(req) ==
    CASE req.op = "code" ->
            {get_referral_code(codes, referrals, req.address, g).resp :
                g \in generate_referral_code(codes)}
      [] req.op = "regenerate" ->
            {regenerate_handler(codes, referrals, req.address, g).resp :
                g \in generate_referral_code(Deactivated(codes, req.address))}
      [] req.op = "use" ->
            {use_referral_code(codes, referrals, req.code, req.address,
                               MIN_SWAP_AMOUNT).resp}
      [] req.op = "stats" ->
            {get_referral_stats(referrals, snapshots, req.address)}
      [] req.op = "snapshot" ->
            {r.resp : r \in SnapshotRuns}

\* the reply of the service that is not configured reports a failure, and
\* is neither the reply to a worksheet fault nor a reply of the configured
\* service
DistinctNotConfigured(req) ==
    LET r == ReplyWithout(NotEnabled, req)
    IN  /\ r.status # 200
        /\ r # ReplyWithout(Raised, req)
        /\ r \notin ConfiguredReplies(req)

\* the operations whose not-configured reply is distinct: regenerate and
\* the snapshot ("Service disabled")
C30_DisabledMessageOps ==
    \A req \in ConfigRequests :
        req.op \in {"regenerate", "snapshot"} => DistinctNotConfigured(req)

\* while the service is not configured no step changes a worksheet
C30_WritesNothing ==
    [][~enabled => /\ codes' = codes
                   /\ referrals' = referrals
                   /\ snapshots' = snapshots]_vars

\* C30: when the service is not configured, every exposed operation reports
\* a distinct "not configured" outcome, different from the outcome of a
\* generic failure and of a business-rule failure such as an unknown code,
\* and writes nothing to any ledger.
C30_NotConfiguredOutcome ==
    /\ [](~enabled => \A req \in ConfigRequests : DistinctNotConfigured(req))
    /\ C30_WritesNothing

\* the rows of the Referral Ledger written for a special code
SpecialEvents == {i \in DOMAIN referrals : IsSpecial(referrals[i].referral_code)}

\* no event of an ordinary code has its referred address as referrer
C31_OrdinaryEventsNotSelf ==
    \A i \in DOMAIN referrals \ SpecialEvents :
        Lower(referrals[i].referrer_address) # Lower(referrals[i].referred_address)

\* C31: in every reachable state no ReferralEvent has a referrer_address
\* equal, ignoring case, to its referred_address, whether the code used was
\* ordinary or special.
C31_NoSelfReferralEvent ==
    \A i \in DOMAIN referrals :
        Lower(referrals[i].referrer_address) # Lower(referrals[i].referred_address)

\* the events an address earned with its own codes: rows of an ordinary
\* code whose referrer is the address
OwnedEventCount(a) ==
    Cardinality({i \in DOMAIN referrals \ SpecialEvents :
                    Lower(referrals[i].referrer_address) = Lower(a)})

\* the address has only what its own codes earned: count, signup points,
\* roll allowance and leaderboard entry
CreditedForOwnedOnly(a) ==
    /\ _count_successful_referrals(referrals, a) = OwnedEventCount(a)
    /\ get_referrer_stats(referrals, snapshots, a).signup_points
          = OwnedEventCount(a) * SIGNUP_BONUS
    /\ MaxRolls(referrals, a)
          = IF OwnedEventCount(a) >= UNLOCK_THRESHOLD
            THEN BASE_ROLLS + BONUS_ROLLS ELSE BASE_ROLLS
    /\ \A e \in {get_leaderboard(referrals, snapshots, ZeroMaxEvents + 1)[i] :
                    i \in DOMAIN get_leaderboard(referrals, snapshots, ZeroMaxEvents + 1)} :
          e.address = Lower(a) =>
            /\ e.total_referrals = OwnedEventCount(a)
            /\ e.referral_points = OwnedEventCount(a) * SIGNUP_BONUS

\* a special code's event credits none of the addresses 0x..1 to 0x..3
C32_OtherAddressesUncredited ==
    \A a \in (ZeroOwners \cup ZeroReferred) \ {ZERO_ADDRESS} : CreditedForOwnedOnly(a)

\* the reply to a special code's use reports a referrer bonus of 0
C32_ReferrerBonusZero ==
    \A c \in ZeroCodeInputs, a \in ZeroReferred :
        LET r == use_referral_code(codes, referrals, c, a, MIN_SWAP_AMOUNT).resp
        IN  r.status = 200 /\ IsSpecial(c) => r.data.referrer_bonus = 0

\* C32: a referral recorded through a special code is owned by no address:
\* it increases no address's successful_referral_count, signup_points,
\* leaderboard referral points or max_rolls, consistently with the
\* referrer_bonus of 0 returned for it.
C32_SpecialEventsOwnedByNone ==
    \A a \in ZeroOwners \cup ZeroReferred : CreditedForOwnedOnly(a)

\* the rows of the Code Ledger that hold an address's first code, as
\* get_or_create_referral_code wrote them, and whose code is in no other row
IssuedRows(ns) ==
    {i \in DOMAIN codes :
        /\ codes[i].address.ns = ns
        /\ codes[i].rolls_used = 1
        /\ RowsWithCode(codes[i].referral_code) = {i}}

\* a valid address with no event that is not the row's owner uses the row's
\* code with the minimum amount: the use succeeds and the new event's
\* referrer is the owner
UseCreditsOwner(i) ==
    \A a \in SolReferred :
        (/\ ~check_if_referred(referrals, a)
         /\ Lower(a) # Lower(codes[i].address))
        => LET r == use_referral_code(codes, referrals, codes[i].referral_code,
                                      a, MIN_SWAP_AMOUNT)
           IN  /\ r.resp.status = 200
               /\ Len(r.referrals) = Len(referrals) + 1
               /\ Lower(r.referrals[Len(r.referrals)].referrer_address)
                     = Lower(codes[i].address)

\* the codes issued to EVM addresses can be used
C33_EvmOwnersCredited ==
    \A i \in IssuedRows("evm") : UseCreditsOwner(i)

\* C33: for a code issued by getOrCreate to any valid address of either
\* namespace, useCode with that code, a different valid not-yet-referred
\* address and an amount >= the minimum succeeds and records the code's
\* owner as referrer: the owner is stored in the Code Ledger in a form that
\* address validation accepts.
C33_IssuedCodesUsable ==
    \A i \in IssuedRows("evm") \cup IssuedRows("sol") :
        /\ _validate_address(codes[i].address).valid
        /\ UseCreditsOwner(i)

\* the entries of a table whose cumulative weight is >= the draw while the
\* cumulative weight of every entry before them is not
FirstReaching(table, rand) ==
    {k \in DOMAIN table :
        /\ CumulativeWeight(table, k) >= rand
        /\ \A j \in 1..(k - 1) : CumulativeWeight(table, j) < rand}

\* C34: for every draw r in [0,1), tier selection returns the first tier in
\* declared order (MYTHIC, LEGENDARY, EPIC, RARE, UNCOMMON, COMMON) whose
\* cumulative weight is >= r, and length selection returns the first length
\* in order 1, 2, 3 whose cumulative weight is >= r; each weight table sums
\* to 1, so a threshold always matches and the fallback value is not needed.
C34_CumulativeSelection ==
    /\ [k \in DOMAIN RARITY_TIERS |-> RARITY_TIERS[k].key]
          = <<"MYTHIC", "LEGENDARY", "EPIC", "RARE", "UNCOMMON", "COMMON">>
    /\ [k \in DOMAIN LENGTH_WEIGHTS |-> LENGTH_WEIGHTS[k].key] = <<1, 2, 3>>
    /\ CumulativeWeight(RARITY_TIERS, Len(RARITY_TIERS)) = DrawScale
    /\ CumulativeWeight(LENGTH_WEIGHTS, Len(LENGTH_WEIGHTS)) = DrawScale
    /\ procs[1].pc \in {"tier", "length"} =>
          \E k \in FirstReaching(RARITY_TIERS, procs[1].tier_rand) :
              procs[1].tier_name = RARITY_TIERS[k].key
    /\ procs[1].pc = "length" =>
          \E k \in FirstReaching(LENGTH_WEIGHTS, procs[1].length_rand) :
              procs[1].length = LENGTH_WEIGHTS[k].key

\* C34 witness: a draw equal to the first tier threshold (0.005) selected
\* MYTHIC, and a draw just above the second length threshold (0.90)
\* selected length 3.
C34_Witness ==
    /\ procs[1].pc = "length"
    /\ procs[1].tier_rand = CumulativeWeight(RARITY_TIERS, 1)
    /\ procs[1].tier_name = "MYTHIC"
    /\ procs[1].length_rand = CumulativeWeight(LENGTH_WEIGHTS, 2) + 1
    /\ procs[1].length = 3

\* the pattern classes of a length a number belongs to: the enumerated
\* sets that list it, "common" when none does
PatternClasses(length, n) ==
    {c \in {"ultra_rare", "rare", "uncommon"} :
        n \in Elements(SPECIAL_NUMBERS[length][c])}
    \cup (IF \A c \in {"ultra_rare", "rare", "uncommon"} :
                n \notin Elements(SPECIAL_NUMBERS[length][c])
          THEN {"common"} ELSE {})

\* C35: for lengths 2 and 3, a number drawn for the "common" pattern class
\* lies in the full range of that digit length (10-99, 100-999) and never
\* belongs to the ultra_rare, rare or uncommon set of that length; the
\* enumerated sets of a length are pairwise disjoint, so each number
\* belongs to exactly one pattern class.
C35_CommonNumbers ==
    /\ \A length \in {2, 3} :
         \A c, d \in {"ultra_rare", "rare", "uncommon"} :
            c # d => Elements(SPECIAL_NUMBERS[length][c])
                       \cap Elements(SPECIAL_NUMBERS[length][d]) = {}
    /\ (procs[1].pc \in {"number", "collided", "done"} /\ procs[1].length \in {2, 3}) =>
          /\ PatternClasses(procs[1].length, procs[1].number) = {procs[1].pattern_type}
          /\ procs[1].pattern_type = "common" =>
                /\ procs[1].number \in (IF procs[1].length = 2 THEN 10..99 ELSE 100..999)
                /\ \A c \in {"ultra_rare", "rare", "uncommon"} :
                      procs[1].number
                          \notin Elements(SPECIAL_NUMBERS[procs[1].length][c])

\* C35 witness: the loop of a length-3 common number drew 500, which is in
\* no enumerated set, and returned it.
C35_Witness ==
    /\ procs[1].pc = "number"
    /\ procs[1].length = 3
    /\ procs[1].pattern_type = "common"
    /\ procs[1].number = 500

\* the candidate the attempt in progress has composed
CandidateOf(frame) ==
    ComposeCode([words |-> frame.words, length |-> frame.length,
                 number |-> frame.number])

\* a candidate that is not in the Code Ledger is returned at once, one that
\* is in it is not returned; the fallback is returned only after attempt
\* max_attempts and is the last candidate's words with the time suffix
ReturnStep ==
    /\ (procs[1].pc = "number" /\ procs'[1].pc = "done") =>
          /\ CandidateOf(procs[1]) \notin ExistingCodes(codes)
          /\ procs'[1].result.code = CandidateOf(procs[1])
    /\ (procs[1].pc = "number" /\ procs'[1].pc = "collided") =>
          CandidateOf(procs[1]) \in ExistingCodes(codes)
    /\ (procs[1].pc = "collided" /\ procs'[1].pc = "done") =>
          /\ procs[1].attempt = max_attempts
          /\ \E t \in TimeMod100 :
               procs'[1].result.code = CodeStr(procs[1].words, t, "upper")
    /\ procs'[1].pc = "done" => procs[1].pc \in {"number", "collided"}

C36_ReturnsFirstFree == [][ReturnStep]_vars

\* a call composes at most 100 candidates
C36_AtMostHundredAttempts ==
    [](procs[1].pc # "idle" => procs[1].attempt \in 1..max_attempts)

C37_RefusalsWriteNothing ==
    \A a \in FaultOwners :
      \A g \in generate_referral_code(Deactivated(codes, a)) :
        LET r == regenerate_referral_code(codes, referrals, a, g)
        IN  ~r.out.success => r.codes = codes

\* a regenerate whose first worksheet read fails writes nothing
C37_ReadFaultWritesNothing ==
    \A a \in FaultOwners :
      \A g \in generate_referral_code(Deactivated(codes, a)) :
        regenerate_with_fault(codes, referrals, a, g, "read").codes = codes

\* C37: if regenerate returns a failure for any reason, including a store
\* fault that occurs after validation has passed, the Code Ledger is
\* unchanged: in particular the code that was active before the call is
\* still active.
C37_FailedRegenerateKeepsLedger ==
    \A a \in FaultOwners, failing \in StoreCalls :
      \A g \in generate_referral_code(Deactivated(codes, a)) :
        LET r == regenerate_with_fault(codes, referrals, a, g, failing)
        IN  ~r.out.success =>
              /\ r.codes = codes
              /\ \A i \in ActiveRows(codes, a) : r.codes[i].is_active

\* the rows of an address are numbered 1, 2, ... in append order and are
\* not more than its roll allowance
RowsNumbered(a) ==
    /\ \A i \in UserRows(codes, a) :
          codes[i].rolls_used = Cardinality({j \in UserRows(codes, a) : j <= i})
    /\ UserRows(codes, a) # {} =>
          /\ Cardinality(UserRows(codes, a)) = CurrentRollsUsed(codes, a)
          /\ CurrentRollsUsed(codes, a) <= MaxRolls(referrals, a)

\* where no worksheet call fails, the rows of every address are numbered
\* in order, up to the cap of 6
C38_NumberedWithoutFaults ==
    \A a \in RollsOwners : RowsNumbered(a)

\* C38: in every state reachable by getOrCreate and regenerate calls
\* (sequential, including calls after a failed regenerate), the rolls_used
\* values of an address's k code rows are exactly 1, 2, ..., k in append
\* order, so the number of codes ever issued to an address equals its
\* highest rolls_used and never exceeds max_rolls(address).
C38_RollsUsedSequence ==
    \A a \in FaultOwners : RowsNumbered(a)

\* the entry of an address in the service leaderboard, if it has one
BoardEntriesOf(a) ==
    {e \in Elements(get_leaderboard(referrals, snapshots, SheetMaxEvents + 1)) :
        e.address = Lower(a)}

\* the statistics and the leaderboard entry of an address count the same
\* referrals
C39_TotalReferralsAgree ==
    \A a \in SheetOwners : \A e \in BoardEntriesOf(a) :
        get_referrer_stats(referrals, snapshots, a).total_referrals
            = e.total_referrals

\* while every balance cell of the worksheet parses, they report the same
\* points
C39_PointsAgreeOnParsedRows ==
    (\A i \in DOMAIN snapshots : snapshots[i].usdx_balance # NotANumber) =>
        \A a \in SheetOwners : \A e \in BoardEntriesOf(a) :
            get_referrer_stats(referrals, snapshots, a).total_referral_points
                = e.referral_points

\* C39: for every referrer address and every ledger content (including
\* snapshot rows whose balance cannot be parsed), the total_referral_points
\* reported by getReferrerStats equals the referral_points of that
\* address's entry in the service leaderboard, and its total_referrals
\* equals that entry's total_referrals.
C39_StatsMatchLeaderboard ==
    \A a \in SheetOwners : \A e \in BoardEntriesOf(a) :
        /\ get_referrer_stats(referrals, snapshots, a).total_referral_points
              = e.referral_points
        /\ get_referrer_stats(referrals, snapshots, a).total_referrals
              = e.total_referrals

\* no request is being served
AllCallsCompleted == \A p \in Workers : procs[p].pc = "idle"

\* C40: under any interleaving of concurrent getOrCreate calls for the same
\* address, alone or together with a concurrent regenerate for that
\* address, once all calls have completed the address has exactly one
\* active row and at most one row with rolls_used = 1.
C40_ConcurrentGetOrCreate ==
    AllCallsCompleted =>
        \A a \in ConcOwners :
            UserRows(codes, a) # {} =>
                /\ Cardinality(ActiveRows(codes, a)) = 1
                /\ Cardinality({i \in UserRows(codes, a) :
                                    codes[i].rolls_used = 1}) <= 1

====
